---- MODULE Spec2Model ----
(***************************************************************************)
(* Bezier-Playground: the command set, the branching local history tree,   *)
(* the coordinator that drives them, and the collaboration layer (the      *)
(* replicated document, the session transport and the session hub).        *)
(*                                                                         *)
(* JavaScript arrays are 0-based; the model keeps the 0-based indices the  *)
(* commands carry and converts at the place a sequence is read.            *)
(***************************************************************************)
EXTENDS Integers, Sequences, FiniteSets, TLC

\* ------------------------------------------------------------------ bounds
\* History nodes the local tree may hold besides the root.
MaxNodes == 3
\* Points a curve of the store may hold.
MaxPoints == 2
\* Curves the store may hold.
MaxCurves == 2
\* Fresh curve ids the store may issue (new curves and Clear All).
MaxCurveId == 3
\* Local commands the two clients of a session may run between them.
MaxCommands == 3
\* Local commands the two clients may run where connections can be lost.
MaxReconnectCommands == 1
\* Connections the two clients may lose between them.
MaxDrops == 1
\* Documents the hub may create for the session.
MaxSessions == 2
\* History nodes besides the root, and points of the curve, in the branching
\* scenario (three added points, two undos, a fourth point).
MaxBranchNodes == 4
MaxBranchPoints == 3
\* Session records the hub may create, connections it may see closed, and
\* half minutes the clock may advance one at a time.
MaxRecords == 3
MaxCloses == 3
MaxTicks == 4
\* Reconnects scheduled in a row, and connections lost, by a client that backs off.
MaxAttempts == 8
\* Local commands in a session with shared undo and redo.
MaxSharedCommands == 2
\* Commands run by both clients together in a session that carries a malformed blob.
MaxMalformedCommands == 2
\* Shared undo and redo requests in a session.
MaxSharedMoves == 2

Null == "null"

\* ------------------------------------------------------------------- data
\* Point: {x, y}
Points == {[x |-> 10, y |-> 10], [x |-> 20, y |-> 20]}

colorPalette == <<"#4a9eff", "#ff4a9e", "#4aff9e", "#ff9e4a", "#9e4aff", "#4afff9">>

\* The n-th curve id the store issues (Math.random().toString(36): opaque, fresh).
CurveId(n) == "c" \o ToString(n)

\* BezierCurve: {id, points, color}
Curve(id, color, points) == [id |-> id, color |-> color, points |-> points]

\* Array.prototype.splice(start, deleteCount, ...items) for start >= 0: a start
\* past the end is clamped to the length, the delete count to what is left.
Splice(s, start, deleteCount, items) ==
    LET st == IF start > Len(s) THEN Len(s) ELSE start
        dc == IF deleteCount > Len(s) - st THEN Len(s) - st ELSE deleteCount
    IN  SubSeq(s, 1, st) \o items \o SubSeq(s, st + dc + 1, Len(s))

\* Array.prototype.findIndex(c => c.id === id): 0-based, -1 when absent.
FindIndex(cs, id) ==
    IF \E i \in 1..Len(cs) : cs[i].id = id
    THEN (CHOOSE i \in 1..Len(cs) :
            cs[i].id = id /\ \A j \in 1..(i - 1) : cs[j].id # id) - 1
    ELSE -1

HasCurve(cs, id) == FindIndex(cs, id) # -1

\* ---------------------------------------------------------------- commands
AddPointCommand(curveId, point) ==
    [kind |-> "AddPoint", curveId |-> curveId, point |-> point]
RemovePointCommand(curveId, index, point) ==
    [kind |-> "RemovePoint", curveId |-> curveId, index |-> index, point |-> point]
MovePointCommand(curveId, index, oldPoint, newPoint) ==
    [kind |-> "MovePoint", curveId |-> curveId, index |-> index,
     oldPoint |-> oldPoint, newPoint |-> newPoint]
AddCurveCommand(curve) == [kind |-> "AddCurve", curve |-> curve]
RemoveCurveCommand(curve, index) ==
    [kind |-> "RemoveCurve", curveData |-> curve, curveIndex |-> index]
LoadCurvesCommand(newCurves, oldCurves) ==
    [kind |-> "LoadCurves", newCurves |-> newCurves, oldCurves |-> oldCurves]
RemoteStateUpdateCommand(newCurves) ==
    [kind |-> "RemoteOverwrite", newCurves |-> newCurves]
\* The root node's command: null.
NoCommand == [kind |-> "none"]

\* The curve at 1-based position i with its points replaced.
WithPoints(cs, i, pts) == [cs EXCEPT ![i] = [@ EXCEPT !.points = pts]]

AddPointExecute(cmd, cs) ==
    LET i == FindIndex(cs, cmd.curveId) + 1
    IN  IF i = 0 THEN cs
        ELSE WithPoints(cs, i, Append(cs[i].points, cmd.point))

AddPointUndo(cmd, cs) ==
    LET i == FindIndex(cs, cmd.curveId) + 1
    IN  IF i # 0 /\ Len(cs[i].points) > 0
        THEN WithPoints(cs, i, SubSeq(cs[i].points, 1, Len(cs[i].points) - 1))
        ELSE cs

RemovePointExecute(cmd, cs) ==
    LET i == FindIndex(cs, cmd.curveId) + 1
    IN  IF i = 0 THEN cs
        ELSE WithPoints(cs, i, Splice(cs[i].points, cmd.index, 1, <<>>))

RemovePointUndo(cmd, cs) ==
    LET i == FindIndex(cs, cmd.curveId) + 1
    IN  IF i = 0 THEN cs
        ELSE WithPoints(cs, i, Splice(cs[i].points, cmd.index, 0, <<cmd.point>>))

MovePointExecute(cmd, cs) ==
    LET i == FindIndex(cs, cmd.curveId) + 1
    IN  IF i # 0 /\ cmd.index + 1 <= Len(cs[i].points)
        THEN WithPoints(cs, i, [cs[i].points EXCEPT ![cmd.index + 1] = cmd.newPoint])
        ELSE cs

MovePointUndo(cmd, cs) ==
    LET i == FindIndex(cs, cmd.curveId) + 1
    IN  IF i # 0 /\ cmd.index + 1 <= Len(cs[i].points)
        THEN WithPoints(cs, i, [cs[i].points EXCEPT ![cmd.index + 1] = cmd.oldPoint])
        ELSE cs

AddCurveExecute(cmd, cs) == Append(cs, Curve(cmd.curve.id, cmd.curve.color, <<>>))

AddCurveUndo(cmd, cs) ==
    LET index == FindIndex(cs, cmd.curve.id)
    IN  IF index # -1 THEN Splice(cs, index, 1, <<>>) ELSE cs

RemoveCurveExecute(cmd, cs) == Splice(cs, cmd.curveIndex, 1, <<>>)

RemoveCurveUndo(cmd, cs) == Splice(cs, cmd.curveIndex, 0, <<cmd.curveData>>)

LoadCurvesExecute(cmd, cs) == cmd.newCurves

LoadCurvesUndo(cmd, cs) == cmd.oldCurves

RemoteStateUpdateExecute(cmd, cs) == cmd.newCurves

\* Command.execute(state): the curves after the command.
Execute(cmd, cs) ==
    CASE cmd.kind = "AddPoint" -> AddPointExecute(cmd, cs)
      [] cmd.kind = "RemovePoint" -> RemovePointExecute(cmd, cs)
      [] cmd.kind = "MovePoint" -> MovePointExecute(cmd, cs)
      [] cmd.kind = "AddCurve" -> AddCurveExecute(cmd, cs)
      [] cmd.kind = "RemoveCurve" -> RemoveCurveExecute(cmd, cs)
      [] cmd.kind = "LoadCurves" -> LoadCurvesExecute(cmd, cs)
      [] cmd.kind = "RemoteOverwrite" -> RemoteStateUpdateExecute(cmd, cs)
      [] OTHER -> cs

\* Command.undo(state): the curves after the undo. RemoteStateUpdateCommand.undo
\* throws; no caller in the model reaches it (it is never stored in a node).
Undo(cmd, cs) ==
    CASE cmd.kind = "AddPoint" -> AddPointUndo(cmd, cs)
      [] cmd.kind = "RemovePoint" -> RemovePointUndo(cmd, cs)
      [] cmd.kind = "MovePoint" -> MovePointUndo(cmd, cs)
      [] cmd.kind = "AddCurve" -> AddCurveUndo(cmd, cs)
      [] cmd.kind = "RemoveCurve" -> RemoveCurveUndo(cmd, cs)
      [] cmd.kind = "LoadCurves" -> LoadCurvesUndo(cmd, cs)
      [] OTHER -> cs

\* Command.getAffectedCurveId()
GetAffectedCurveId(cmd) ==
    CASE cmd.kind \in {"AddPoint", "RemovePoint", "MovePoint"} -> cmd.curveId
      [] cmd.kind = "AddCurve" -> cmd.curve.id
      [] cmd.kind = "RemoveCurve" -> cmd.curveData.id
      [] cmd.kind \in {"LoadCurves", "RemoteOverwrite"} ->
            IF Len(cmd.newCurves) > 0 THEN cmd.newCurves[1].id ELSE Null
      [] OTHER -> Null

\* ------------------------------------------------------- local application
VARIABLES
    curves,              \* CurveManager.curves, the array HistoryManager.state shares
    activeCurveId,       \* CurveManager.activeCurveId
    nextColorIndex,      \* CurveManager.nextColorIndex
    nextCurveId,         \* the next fresh curve id (Math.random ids never repeat)
    tree,                \* the HistoryNode objects: tree[n] = {command, parent, children}
    currentNode,         \* HistoryManager.currentNode
    selectedChildIndex,  \* HistoryManager.selectedChildIndex
    branches,            \* the BranchInfo nodes the history dropdown last rendered
    lastOp               \* observer: the HistoryManager / UI operation that ran last

localVars == <<curves, activeCurveId, nextColorIndex, nextCurveId, tree, currentNode,
               selectedChildIndex, branches, lastOp>>

\* A command run against a bare store, outside any history.
VARIABLES
    store0,              \* the store's curves before the command
    active0,             \* the store's active curve id before the command
    theCommand,          \* the command under test
    phase                \* "idle" | "new" | "executed" | "undone"

cmdVars == <<store0, active0, theCommand, phase>>

\* Two browser clients and the session hub.
VARIABLES
    client,              \* per client: CollaborationManager, WebSocketClient, the store
    hub,                 \* the hub's session table entry for session "default"
    c2h,                 \* per client: messages in flight to the hub, oldest first
    h2c                  \* per client: messages in flight from the hub, oldest first

collabVars == <<client, hub, c2h, h2c>>

\* The hub's session table over time.
VARIABLES
    server               \* sessions (the Map), the session records, each
                         \* connection's currentSession, the pending timeouts

serverVars == <<server>>

\* The operation that ran, for a step of the local application alone.
Ran(op) == lastOp' = op /\ UNCHANGED <<cmdVars, collabVars, serverVars>>

\* HistoryManager.root; a parent of 0 is null.
Root == 1

HistoryNode(command, parent) == [command |-> command, parent |-> parent, children |-> <<>>]

\* The store the HistoryManager is constructed over: CurveManager's constructor
\* has added one empty curve with the first palette color.
InitialCurves == <<Curve(CurveId(1), colorPalette[1], <<>>)>>

\* Curve files the user may load: one with a curve id the store never issued,
\* one saved earlier from this session (so it repeats the first curve's id).
Files ==
    { <<Curve("file", colorPalette[2], <<[x |-> 10, y |-> 10], [x |-> 20, y |-> 20]>>)>>,
      <<Curve(CurveId(1), colorPalette[1], <<[x |-> 20, y |-> 20]>>)>> }

\* CurveManager.getActiveCurve(): its 1-based position, 0 for null.
ActiveIndex(cs, active) == FindIndex(cs, active) + 1

\* The nodes from the root down to n, following parent links.
RECURSIVE PathTo(_, _)
PathTo(t, n) == IF t[n].parent = 0 THEN <<n>> ELSE Append(PathTo(t, t[n].parent), n)

\* The ancestors of n, n included.
Ancestors(t, n) == {PathTo(t, n)[i] : i \in 1..Len(PathTo(t, n))}

\* command.execute for the nodes of a path, in order.
RECURSIVE ExecutePath(_, _, _)
ExecutePath(t, path, cs) ==
    IF path = <<>> THEN cs
    ELSE ExecutePath(t, Tail(path), Execute(t[Head(path)].command, cs))

\* HistoryManager.canUndo / canRedo
canUndo == tree[currentNode].parent # 0
canRedo == Len(tree[currentNode].children) > 0

\* StateManager.syncStateFromHistory(affectedCurveId): the active curve id after.
syncStateFromHistory(affectedCurveId, cs, active) ==
    IF affectedCurveId # Null
    THEN IF HasCurve(cs, affectedCurveId) THEN affectedCurveId
         ELSE IF Len(cs) > 0 THEN cs[1].id ELSE active
    ELSE active

\* A slip executeCommand could make: a linear history, where the new node
\* replaces the children the current node already had.
executeCommandTruncating(t, cur, command) ==
    LET n == Len(t) + 1
    IN  [Append(t, HistoryNode(command, cur)) EXCEPT ![cur].children = <<n>>]

\* HistoryManager.executeCommand(command), collaboration not enabled: the tree
\* after (the store after is Execute(command, curves)).
executeCommand(t, cur, command) ==
    LET n == Len(t) + 1
    IN  [Append(t, HistoryNode(command, cur)) EXCEPT ![cur].children = Append(@, n)]

\* A coordinator step that runs one command through the history.
RunCommand(command) ==
    /\ Len(tree) <= MaxNodes
    /\ tree' = executeCommand(tree, currentNode, command)
    /\ curves' = Execute(command, curves)
    /\ currentNode' = Len(tree) + 1
    /\ selectedChildIndex' = 0
    /\ Ran("executeCommand")

\* HistoryManager.undo(): the store after, for canUndo.
undoCurves(t, cur, cs) == Undo(t[cur].command, cs)

\* A slip redo could make: always the first child, whatever the selection.
redoNodeFirstChild(t, cur, sel) == t[cur].children[1]

\* HistoryManager.redo(): the child redo moves to, for canRedo.
\* Math.min(selectedChildIndex, children.length - 1), then 1-based.
redoNode(t, cur, sel) ==
    LET n == Len(t[cur].children)
        childIndex == IF sel < n - 1 THEN sel ELSE n - 1
    IN  t[cur].children[childIndex + 1]

\* HistoryManager.redo(): the current node, the selection and the store
\* after, and what it returns.
redo(t, cur, sel, cs) ==
    IF Len(t[cur].children) = 0
    THEN [currentNode |-> cur, selectedChildIndex |-> sel, curves |-> cs, ret |-> Null]
    ELSE LET nextNode == redoNode(t, cur, sel)
         IN  [currentNode |-> nextNode, selectedChildIndex |-> 0,
              curves |-> Execute(t[nextNode].command, cs),
              ret |-> GetAffectedCurveId(t[nextNode].command)]

\* HistoryManager.findCommonAncestor(node1, node2): walking up from node2, the
\* first node among node1's ancestors; the root when there is none.
findCommonAncestor(t, node1, node2) ==
    LET p2 == PathTo(t, node2)
        common == {i \in 1..Len(p2) : p2[i] \in Ancestors(t, node1)}
    IN  IF common = {} THEN Root
        ELSE p2[CHOOSE i \in common : \A j \in common : j <= i]

\* The undo loop of switchToBranch and clear: command.undo from node `from` up
\* to, not including, node `to`.
RECURSIVE UndoWalk(_, _, _, _)
UndoWalk(t, from, to, cs) ==
    IF from = to THEN cs
    ELSE UndoWalk(t, t[from].parent, to, Undo(t[from].command, cs))

\* switchToBranch's pathToTarget: the nodes from targetNode up to, not
\* including, the common ancestor, root-most first.
PathToTarget(t, commonAncestor, targetNode) ==
    LET p == PathTo(t, targetNode)
        at == {i \in 1..Len(p) : p[i] = commonAncestor}
    IN  IF at = {} THEN p
        ELSE SubSeq(p, (CHOOSE i \in at : TRUE) + 1, Len(p))

\* A slip switchToBranch could make: walking down to the target without first
\* undoing the commands between the current node and the common ancestor.
switchToBranchNoUndo(t, cur, targetNode, cs) ==
    LET commonAncestor == findCommonAncestor(t, cur, targetNode)
        path == PathToTarget(t, commonAncestor, targetNode)
    IN  [curves |-> ExecutePath(t, path, cs),
         currentNode |-> IF path = <<>> THEN commonAncestor ELSE path[Len(path)]]

\* HistoryManager.switchToBranch(targetNode): the store and the current node after.
switchToBranch(t, cur, targetNode, cs) ==
    LET commonAncestor == findCommonAncestor(t, cur, targetNode)
        undone == UndoWalk(t, cur, commonAncestor, cs)
        path == PathToTarget(t, commonAncestor, targetNode)
    IN  [curves |-> ExecutePath(t, path, undone),
         currentNode |-> IF path = <<>> THEN commonAncestor ELSE path[Len(path)]]

\* A slip isInCurrentPath could make: only the current node itself counts.
isInCurrentPathSelfOnly(t, cur, node) == node = cur

\* HistoryManager.isInCurrentPath(node)
isInCurrentPath(t, cur, node) == node \in Ancestors(t, cur)

\* HistoryManager.getBranches(): the children of every node on the path from the
\* root to the current node that has more than one child, root-most first.
RECURSIVE BranchesAlong(_, _)
BranchesAlong(t, path) ==
    IF path = <<>> THEN <<>>
    ELSE (IF Len(t[Head(path)].children) > 1 THEN t[Head(path)].children ELSE <<>>)
         \o BranchesAlong(t, Tail(path))

getBranches(t, cur) == BranchesAlong(t, PathTo(t, cur))

\* A jump forward that takes the first child at every step, the first included.
RECURSIVE JumpForwardFirstChild(_, _, _, _, _, _)
JumpForwardFirstChild(t, node, isFirstStep, sel, cs, last) ==
    LET n == Len(t[node].children)
        nextNode == t[node].children[1]
    IN  IF n = 0 \/ (n > 1 /\ ~isFirstStep)
        THEN [curves |-> cs, currentNode |-> node, ret |-> last]
        ELSE JumpForwardFirstChild(t, nextNode, FALSE, sel,
                                   Execute(t[nextNode].command, cs),
                                   GetAffectedCurveId(t[nextNode].command))

\* HistoryManager.jumpToNextIntersectionOrEnd(): the loop from `node` on; the
\* result is the store, the node reached and the last affected curve id.
RECURSIVE JumpForward(_, _, _, _, _, _)
JumpForward(t, node, isFirstStep, sel, cs, last) ==
    LET n == Len(t[node].children)
        childIndex == IF sel < n - 1 THEN sel ELSE n - 1
        nextNode == IF isFirstStep /\ n > 1 THEN t[node].children[childIndex + 1]
                    ELSE t[node].children[1]
    IN  IF n = 0 \/ (n > 1 /\ ~isFirstStep)
        THEN [curves |-> cs, currentNode |-> node, ret |-> last]
        ELSE JumpForward(t, nextNode, FALSE, sel, Execute(t[nextNode].command, cs),
                         GetAffectedCurveId(t[nextNode].command))

jumpToNextIntersectionOrEnd(t, cur, sel, cs) == JumpForward(t, cur, TRUE, sel, cs, Null)

\* HistoryManager.jumpToPreviousIntersectionOrStart(): the loop from `node` on.
RECURSIVE JumpBackward(_, _, _, _)
JumpBackward(t, node, cs, last) ==
    LET parent == t[node].parent
        undone == Undo(t[node].command, cs)
        affected == GetAffectedCurveId(t[parent].command)
    IN  IF parent = 0 THEN [curves |-> cs, currentNode |-> node, ret |-> last]
        ELSE IF Len(t[parent].children) > 1
        THEN [curves |-> undone, currentNode |-> parent, ret |-> affected]
        ELSE JumpBackward(t, parent, undone, affected)

\* A slip the jump could make: moving the current node up without undoing the
\* commands on the way.
jumpToPreviousIntersectionOrStartNoUndo(t, cur, cs) ==
    [JumpBackward(t, cur, cs, Null) EXCEPT !.curves = cs]

jumpToPreviousIntersectionOrStart(t, cur, cs) == JumpBackward(t, cur, cs, Null)

\* isAtIntersection() answering for any node that has a child.
isAtIntersectionAnyChild == Len(tree[currentNode].children) > 0

\* HistoryManager.isAtIntersection()
isAtIntersection == Len(tree[currentNode].children) > 1

\* A slip getIntersectionInfo could make: report the selection as it is
\* stored, counted from 0.
getIntersectionInfoZeroBased(t, cur, sel) ==
    IF Len(t[cur].children) > 1
    THEN [isNull |-> FALSE, currentBranch |-> sel,
          totalBranches |-> Len(t[cur].children)]
    ELSE [isNull |-> TRUE, currentBranch |-> 0, totalBranches |-> 0]

\* HistoryManager.getIntersectionInfo(): null away from a decision point,
\* else the 1-based branch selected and the number of branches. (The
\* description, read from children[selectedChildIndex], is left out.)
getIntersectionInfo(t, cur, sel) ==
    IF Len(t[cur].children) > 1
    THEN [isNull |-> FALSE, currentBranch |-> sel + 1,
          totalBranches |-> Len(t[cur].children)]
    ELSE [isNull |-> TRUE, currentBranch |-> 0, totalBranches |-> 0]

\* HistoryManager.clear(): the store after the walk back to the root.
clearCurves(t, cur, cs) == UndoWalk(t, cur, Root, cs)

\* Is node n reachable from the root by following children links?
RECURSIVE ReachableFrom(_, _, _)
ReachableFrom(t, from, n) ==
    \/ from = n
    \/ \E i \in 1..Len(t[from].children) : ReachableFrom(t, t[from].children[i], n)

\* ----------------------------------------------- local application: actions
LocalInit ==
    /\ curves = InitialCurves
    /\ activeCurveId = CurveId(1)
    /\ nextColorIndex = 1
    /\ nextCurveId = 2
    /\ tree = <<HistoryNode(NoCommand, 0)>>
    /\ currentNode = Root
    /\ selectedChildIndex = 0
    /\ branches = <<>>
    /\ lastOp = "init"

\* InteractionManager.handleMouseDown off every point -> 'add' ->
\* StateManager.syncCurveWithInteraction
ClickAddPoint(p) ==
    LET ai == ActiveIndex(curves, activeCurveId)
        command == AddPointCommand(activeCurveId, p)
    IN  /\ ai # 0
        /\ Len(curves[ai].points) < MaxPoints
        /\ RunCommand(command)
        /\ activeCurveId' =
              syncStateFromHistory(GetAffectedCurveId(command), curves', activeCurveId)
        /\ UNCHANGED <<nextColorIndex, nextCurveId, branches>>

\* InteractionManager.handleContextMenu on point `index` -> 'remove'
RightClickPoint(index) ==
    LET ai == ActiveIndex(curves, activeCurveId)
        command == RemovePointCommand(activeCurveId, index, curves[ai].points[index + 1])
    IN  /\ ai # 0
        /\ index + 1 <= Len(curves[ai].points)
        /\ RunCommand(command)
        /\ activeCurveId' =
              syncStateFromHistory(GetAffectedCurveId(command), curves', activeCurveId)
        /\ UNCHANGED <<nextColorIndex, nextCurveId, branches>>

\* InteractionManager: mouse down on point `index`, drag to p, mouse up -> 'move'
DragPoint(index, p) ==
    LET ai == ActiveIndex(curves, activeCurveId)
        command == MovePointCommand(activeCurveId, index, curves[ai].points[index + 1], p)
    IN  /\ ai # 0
        /\ index + 1 <= Len(curves[ai].points)
        /\ curves[ai].points[index + 1] # p
        /\ RunCommand(command)
        /\ activeCurveId' =
              syncStateFromHistory(GetAffectedCurveId(command), curves', activeCurveId)
        /\ UNCHANGED <<nextColorIndex, nextCurveId, branches>>

\* UIControlManager: the new-curve button
NewCurveClick ==
    LET newCurve == Curve(CurveId(nextCurveId), colorPalette[nextColorIndex + 1], <<>>)
        command == AddCurveCommand(newCurve)
    IN  /\ nextCurveId <= MaxCurveId
        /\ Len(curves) < MaxCurves
        /\ RunCommand(command)
        /\ nextColorIndex' = (nextColorIndex + 1) % Len(colorPalette)
        /\ nextCurveId' = nextCurveId + 1
        /\ activeCurveId' =
              syncStateFromHistory(GetAffectedCurveId(command), curves', activeCurveId)
        /\ UNCHANGED branches

\* UIControlManager: the delete-curve button
DeleteCurveClick ==
    LET ai == ActiveIndex(curves, activeCurveId)
        command == RemoveCurveCommand(curves[ai], ai - 1)
    IN  /\ ai # 0
        /\ RunCommand(command)
        /\ activeCurveId' =
              syncStateFromHistory(GetAffectedCurveId(command), curves', activeCurveId)
        /\ UNCHANGED <<nextColorIndex, nextCurveId, branches>>

\* FileManager.loadJSONFromFile with a valid curves file
LoadFile(newCurves) ==
    LET command == LoadCurvesCommand(newCurves, curves)
    IN  /\ RunCommand(command)
        /\ activeCurveId' = IF Len(newCurves) > 0 THEN newCurves[1].id ELSE activeCurveId
        /\ UNCHANGED <<nextColorIndex, nextCurveId, branches>>

\* DropdownManager.updateCurveSelector: a click on a listed curve
SelectCurve(i) ==
    /\ Len(curves[i].points) > 0
    /\ curves[i].id # activeCurveId
    /\ activeCurveId' = curves[i].id
    /\ UNCHANGED <<curves, nextColorIndex, nextCurveId, tree, currentNode,
                   selectedChildIndex, branches>>
    /\ Ran("setActiveCurve")

\* StateManager.undo, collaboration not enabled
UndoClick ==
    /\ canUndo
    /\ curves' = undoCurves(tree, currentNode, curves)
    /\ currentNode' = tree[currentNode].parent
    /\ selectedChildIndex' = 0
    /\ activeCurveId' =
          syncStateFromHistory(GetAffectedCurveId(tree[currentNode'].command),
                               curves', activeCurveId)
    /\ UNCHANGED <<nextColorIndex, nextCurveId, tree, branches>>
    /\ Ran("undo")

\* StateManager.redo, collaboration not enabled
RedoClick ==
    LET r == redo(tree, currentNode, selectedChildIndex, curves)
    IN  /\ canRedo
        /\ currentNode' = r.currentNode
        /\ curves' = r.curves
        /\ selectedChildIndex' = r.selectedChildIndex
        /\ activeCurveId' = syncStateFromHistory(r.ret, curves', activeCurveId)
        /\ UNCHANGED <<nextColorIndex, nextCurveId, tree, branches>>
        /\ Ran("redo")

\* DropdownManager.setupHistoryDropdown: opening the dropdown renders getBranches()
OpenHistoryDropdown ==
    /\ branches' = getBranches(tree, currentNode)
    /\ branches' # branches
    /\ UNCHANGED <<curves, activeCurveId, nextColorIndex, nextCurveId, tree,
                   currentNode, selectedChildIndex>>
    /\ Ran("getBranches")

\* DropdownManager.updateHistoryDropdown: a click on a rendered branch item
BranchClick(i) ==
    LET r == switchToBranch(tree, currentNode, branches[i], curves)
    IN  /\ curves' = r.curves
        /\ currentNode' = r.currentNode
        /\ selectedChildIndex' = 0
        /\ activeCurveId' =
              syncStateFromHistory(GetAffectedCurveId(tree[branches[i]].command),
                                   curves', activeCurveId)
        /\ UNCHANGED <<nextColorIndex, nextCurveId, tree, branches>>
        /\ Ran("switchToBranch")

\* UIControlManager / DropdownManager: jump to the next branch point or the end
JumpForwardKey ==
    LET r == jumpToNextIntersectionOrEnd(tree, currentNode, selectedChildIndex, curves)
    IN  /\ canRedo
        /\ curves' = r.curves
        /\ currentNode' = r.currentNode
        /\ selectedChildIndex' = 0
        /\ activeCurveId' = syncStateFromHistory(r.ret, curves', activeCurveId)
        /\ UNCHANGED <<nextColorIndex, nextCurveId, tree, branches>>
        /\ Ran("jumpToNextIntersectionOrEnd")

\* UIControlManager: Ctrl+Shift+ArrowLeft, jump to the previous branch point or
\* the start. The key handler calls it at any node, the root included (the
\* dropdown offers it only when canJumpBackward).
JumpBackwardKey ==
    LET r == jumpToPreviousIntersectionOrStart(tree, currentNode, curves)
    IN  /\ curves' = r.curves
        /\ currentNode' = r.currentNode
        /\ selectedChildIndex' = 0
        /\ activeCurveId' = syncStateFromHistory(r.ret, curves', activeCurveId)
        /\ UNCHANGED <<nextColorIndex, nextCurveId, tree, branches>>
        /\ Ran("jumpToPreviousIntersectionOrStart")

\* HistoryManager.switchToNextBranch(): the selection after.
switchToNextBranch(t, cur, sel) ==
    IF Len(t[cur].children) > 1 THEN (sel + 1) % Len(t[cur].children) ELSE sel

\* A slip switchToPreviousBranch could make: stop at the first branch where it
\* should wrap to the last.
switchToPreviousBranchNoWrap(t, cur, sel) ==
    IF Len(t[cur].children) > 1 /\ sel > 0 THEN sel - 1 ELSE sel

\* HistoryManager.switchToPreviousBranch(): the selection after.
switchToPreviousBranch(t, cur, sel) ==
    IF Len(t[cur].children) > 1
    THEN (sel - 1 + Len(t[cur].children)) % Len(t[cur].children)
    ELSE sel

\* UIControlManager: Ctrl+Shift+ArrowDown
NextBranchKey ==
    /\ isAtIntersection
    /\ selectedChildIndex' = switchToNextBranch(tree, currentNode, selectedChildIndex)
    /\ UNCHANGED <<curves, activeCurveId, nextColorIndex, nextCurveId, tree,
                   currentNode, branches>>
    /\ Ran("switchToNextBranch")

\* UIControlManager: Ctrl+Shift+ArrowUp
PreviousBranchKey ==
    /\ isAtIntersection
    /\ selectedChildIndex' = switchToPreviousBranch(tree, currentNode, selectedChildIndex)
    /\ UNCHANGED <<curves, activeCurveId, nextColorIndex, nextCurveId, tree,
                   currentNode, branches>>
    /\ Ran("switchToPreviousBranch")

\* UIControlManager: the clear button. CurveManager.clearAllCurves() runs first,
\* then HistoryManager.clear() undoes the path against the store it left.
ClearAllClick ==
    LET fresh == <<Curve(CurveId(nextCurveId), colorPalette[nextColorIndex + 1], <<>>)>>
    IN  /\ nextCurveId <= MaxCurveId
        /\ curves' = clearCurves(tree, currentNode, fresh)
        /\ activeCurveId' = CurveId(nextCurveId)
        /\ nextColorIndex' = (nextColorIndex + 1) % Len(colorPalette)
        /\ nextCurveId' = nextCurveId + 1
        /\ currentNode' = Root
        /\ tree' = [tree EXCEPT ![Root].children = <<>>]
        /\ selectedChildIndex' = 0
        /\ UNCHANGED branches
        /\ Ran("clear")

\* The four history operations: executeCommand, undo, redo, switchToBranch.
ReplayNext ==
    \/ \E p \in Points : ClickAddPoint(p)
    \/ \E i \in 0..(MaxPoints - 1) : RightClickPoint(i)
    \/ \E i \in 0..(MaxPoints - 1), p \in Points : DragPoint(i, p)
    \/ NewCurveClick
    \/ DeleteCurveClick
    \/ \E f \in Files : LoadFile(f)
    \/ \E i \in 1..Len(curves) : SelectCurve(i)
    \/ UndoClick
    \/ RedoClick
    \/ OpenHistoryDropdown
    \/ \E i \in 1..Len(branches) : BranchClick(i)

\* The history operations with the jumps and the branch selection keys.
JumpNext ==
    \/ ReplayNext
    \/ JumpForwardKey
    \/ JumpBackwardKey
    \/ NextBranchKey
    \/ PreviousBranchKey

\* Every operation of the local history tree.
TreeNext ==
    \/ ReplayNext
    \/ JumpForwardKey
    \/ JumpBackwardKey
    \/ NextBranchKey
    \/ PreviousBranchKey
    \/ ClearAllClick

\* history.executeCommand(new AddPointCommand(curve, p)) on the first curve,
\* as the branching scenario drives the history.
AddPointCall(p) ==
    LET command == AddPointCommand(curves[1].id, p)
    IN  /\ Len(tree) <= MaxBranchNodes
        /\ Len(curves[1].points) < MaxBranchPoints
        /\ tree' = executeCommand(tree, currentNode, command)
        /\ curves' = Execute(command, curves)
        /\ currentNode' = Len(tree) + 1
        /\ selectedChildIndex' = 0
        /\ UNCHANGED <<activeCurveId, nextColorIndex, nextCurveId, branches>>
        /\ Ran("executeCommand")

\* The branching scenario: add points, undo, list the branches, switch.
BranchNext ==
    \/ \E p \in Points : AddPointCall(p)
    \/ UndoClick
    \/ OpenHistoryDropdown
    \/ \E i \in 1..Len(branches) : BranchClick(i)

\* ------------------------------------------- one command on a bare store
\* Sequences of at most n points.
PointSeqs(n) == UNION {[1..k -> Points] : k \in 0..n}

\* Stores of at most MaxCurves curves with distinct ids, each of at most
\* MaxPoints points.
CmdStores ==
    LET ids == {CurveId(n) : n \in 1..MaxCurves}
        cs == {Curve(id, colorPalette[1], pts) : id \in ids, pts \in PointSeqs(MaxPoints)}
    IN  {s \in UNION {[1..k -> cs] : k \in 0..MaxCurves} :
            \A i, j \in 1..Len(s) : i # j => s[i].id # s[j].id}

\* A curve id no store of CmdStores holds.
MissingCurveId == CurveId(MaxCurves + 1)

\* The point a caller passes for position `index` of curve `id`: the point that
\* is there, any point when the curve or the position is missing.
PointsAt(s, id, index) ==
    LET i == FindIndex(s, id) + 1
    IN  IF i # 0 /\ index + 1 <= Len(s[i].points) THEN {s[i].points[index + 1]} ELSE Points

\* The commands of the six undoable kinds a caller can construct against
\* store s, with a target that is present, missing, in range or out of range.
CmdCommands(s) ==
    LET ids == {CurveId(n) : n \in 1..(MaxCurves + 1)}
    IN  {AddPointCommand(id, p) : id \in ids, p \in Points}
        \cup UNION {{RemovePointCommand(id, index, p) : p \in PointsAt(s, id, index)} :
                        id \in ids, index \in 0..MaxPoints}
        \cup UNION {{MovePointCommand(id, index, old, new) :
                            old \in PointsAt(s, id, index), new \in Points} :
                        id \in ids, index \in 0..MaxPoints}
        \cup {AddCurveCommand(Curve(MissingCurveId, colorPalette[2], <<>>))}
        \cup {RemoveCurveCommand(
                    IF index + 1 <= Len(s) THEN s[index + 1]
                    ELSE Curve(MissingCurveId, colorPalette[2], <<>>), index) :
                  index \in 0..MaxCurves}
        \cup {LoadCurvesCommand(f, s) : f \in Files}

\* No command under test: the value of cmdVars outside SpecCmd.
CmdIdle ==
    /\ store0 = <<>>
    /\ active0 = Null
    /\ theCommand = NoCommand
    /\ phase = "idle"

CmdInit ==
    /\ curves \in CmdStores
    /\ activeCurveId \in {CurveId(1), Null}
    /\ nextColorIndex = 1
    /\ nextCurveId = 2
    /\ tree = <<HistoryNode(NoCommand, 0)>>
    /\ currentNode = Root
    /\ selectedChildIndex = 0
    /\ branches = <<>>
    /\ lastOp = "init"
    /\ store0 = curves
    /\ active0 = activeCurveId
    /\ theCommand \in CmdCommands(curves)
    /\ phase = "new"

\* command.execute(state)
CmdExecute ==
    /\ phase = "new"
    /\ curves' = Execute(theCommand, curves)
    /\ phase' = "executed"
    /\ lastOp' = "execute"
    /\ UNCHANGED <<activeCurveId, nextColorIndex, nextCurveId, tree, currentNode,
                   selectedChildIndex, branches, store0, active0, theCommand, collabVars,
                   serverVars>>

\* command.undo(state)
CmdUndo ==
    /\ phase = "executed"
    /\ curves' = Undo(theCommand, curves)
    /\ phase' = "undone"
    /\ lastOp' = "undo"
    /\ UNCHANGED <<activeCurveId, nextColorIndex, nextCurveId, tree, currentNode,
                   selectedChildIndex, branches, store0, active0, theCommand, collabVars,
                   serverVars>>

\* ------------------------------------------------------ replicated document
\* The replicated document is an Automerge document. Its curves are a list
\* CRDT whose elements are curve objects, each with a list CRDT of points.
\* Every element carries the id of the operation that inserted it and a
\* deletion mark; a change is a set of operations with the changes it depends
\* on. The document's `users` map (presence) touches no curve and is left out.
Clients == {1, 2}

\* An optional value: absent, or present with value x.
None == <<>>
Some(x) == <<x>>

\* An operation id: a Lamport counter and the actor that issued it. An actor
\* is <<owner, n>>: owner 0 is the hub, n counts the documents the owner made
\* (Automerge draws a fresh random actor id for every from() and load()).
OpId(ctr, actor) == [ctr |-> ctr, actor |-> actor]

\* The position before the first element of a list.
HEAD == OpId(0, <<0, 0>>)

ActorGreater(a, b) == a[1] > b[1] \/ (a[1] = b[1] /\ a[2] > b[2])

OpGreater(a, b) == a.ctr > b.ctr \/ (a.ctr = b.ctr /\ ActorGreater(a.actor, b.actor))

Elem(eid, val) == [eid |-> eid, deleted |-> FALSE, val |-> val]

IndexOfElem(list, eid) ==
    IF eid = HEAD THEN 0 ELSE CHOOSE i \in 1..Len(list) : list[i].eid = eid

\* From position i on, the first element whose id is not greater than eid.
RECURSIVE SkipGreater(_, _, _)
SkipGreater(list, i, eid) ==
    IF i <= Len(list) /\ OpGreater(list[i].eid, eid)
    THEN SkipGreater(list, i + 1, eid)
    ELSE i

\* A slip the list merge could make: the element goes right after its
\* reference element, in arrival order.
ListInsertArrivalOrder(list, ref, elem) ==
    LET at == IndexOfElem(list, ref) + 1
    IN  SubSeq(list, 1, at - 1) \o <<elem>> \o SubSeq(list, at, Len(list))

\* Insert elem after the element ref: concurrent insertions at one place are
\* ordered by operation id, greater first.
ListInsert(list, ref, elem) ==
    LET at == SkipGreater(list, IndexOfElem(list, ref) + 1, elem.eid)
    IN  SubSeq(list, 1, at - 1) \o <<elem>> \o SubSeq(list, at, Len(list))

\* Insert a run of elements, the first after ref, each next after the previous.
RECURSIVE InsertRun(_, _, _)
InsertRun(list, ref, elems) ==
    IF elems = <<>> THEN list
    ELSE InsertRun(ListInsert(list, ref, Head(elems)), Head(elems).eid, Tail(elems))

\* Mark the elements with an id in dels deleted.
ListDelete(list, dels) ==
    [i \in 1..Len(list) |->
        IF list[i].eid \in dels THEN [list[i] EXCEPT !.deleted = TRUE] ELSE list[i]]

VisibleElems(list) == SelectSeq(list, LAMBDA e : ~e.deleted)

\* JSON.parse(JSON.stringify(points)) of a document curve
PlainPoints(list) ==
    LET v == VisibleElems(list) IN [i \in 1..Len(v) |-> v[i].val]

\* JSON.parse(JSON.stringify(doc.curves))
PlainCurves(list) ==
    LET v == VisibleElems(list)
    IN  [i \in 1..Len(v) |-> Curve(v[i].val.id, v[i].val.color, PlainPoints(v[i].val.points))]

\* The elements a run of points becomes: ids from counter `start` on.
PointElems(start, actor, pts) ==
    [i \in 1..Len(pts) |-> Elem(OpId(start + i - 1, actor), pts[i])]

\* Operations a curve object takes: one for the object, one per point.
CurveOps(curve) == 1 + Len(curve.points)

RECURSIVE CurvesOps(_)
CurvesOps(cs) == IF cs = <<>> THEN 0 ELSE CurveOps(Head(cs)) + CurvesOps(Tail(cs))

\* The elements a run of curve objects becomes: ids from counter `start` on.
RECURSIVE CurveElems(_, _, _)
CurveElems(start, actor, cs) ==
    IF cs = <<>> THEN <<>>
    ELSE <<Elem(OpId(start, actor),
                [id |-> Head(cs).id, color |-> Head(cs).color,
                 colorOp |-> OpId(start, actor),
                 points |-> PointElems(start + 1, actor, Head(cs).points)])>>
         \o CurveElems(start + CurveOps(Head(cs)), actor, Tail(cs))

\* The operations of a change:
\*   spliceCurves  doc.curves.splice / push: delete `dels`, insert `items` after `ref`
\*   splicePoints  curve.points.splice: the same on the points of curve `curve`
\*   setColor      curve.color = color (last writer wins)
\*   addHistory    a shared-history node added under its parent, made current
\* Deletions take the counters from `start` on, insertions the ones after them.
SpliceCurvesOp(start, actor, dels, ref, items) ==
    [op |-> "spliceCurves", start |-> start, actor |-> actor, dels |-> dels,
     ref |-> ref, items |-> items]
SplicePointsOp(start, actor, curve, dels, items) ==
    [op |-> "splicePoints", start |-> start, actor |-> actor, curve |-> curve,
     dels |-> dels, items |-> items]
SetColorOp(start, actor, curve, color) ==
    [op |-> "setColor", start |-> start, actor |-> actor, curve |-> curve,
     color |-> color]
AddHistoryOp(start, actor, node) ==
    [op |-> "addHistory", start |-> start, actor |-> actor, node |-> node]
SetCurrentOp(start, actor, nodeId) ==
    [op |-> "setCurrent", start |-> start, actor |-> actor, nodeId |-> nodeId]

\* The counters an operation takes.
OpSize(op) ==
    CASE op.op = "spliceCurves" -> Cardinality(op.dels) + CurvesOps(op.items)
      [] op.op = "splicePoints" -> Cardinality(op.dels) + Len(op.items)
      [] OTHER -> 1

\* An operation applied to the curves list.
ApplyCurvesOp(list, op) ==
    CASE op.op = "spliceCurves" ->
            InsertRun(ListDelete(list, op.dels), op.ref,
                      CurveElems(op.start + Cardinality(op.dels), op.actor, op.items))
      [] op.op = "splicePoints" ->
            [i \in 1..Len(list) |->
                IF list[i].eid = op.curve
                THEN [list[i] EXCEPT !.val.points =
                        InsertRun(ListDelete(@, op.dels), HEAD,
                                  PointElems(op.start + Cardinality(op.dels), op.actor,
                                             op.items))]
                ELSE list[i]]
      [] op.op = "setColor" ->
            [i \in 1..Len(list) |->
                IF list[i].eid = op.curve
                   /\ OpGreater(OpId(op.start, op.actor), list[i].val.colorOp)
                THEN [list[i] EXCEPT !.val.color = op.color,
                                     !.val.colorOp = OpId(op.start, op.actor)]
                ELSE list[i]]
      [] OTHER -> list

\* An operation applied to the shared history, when the document has one.
ApplyHistoryOp(history, op) ==
    IF op.op = "addHistory" /\ history # None
    THEN Some([history[1] EXCEPT
            !.nodes = Append(
                [i \in 1..Len(@) |->
                    IF @[i].id = op.node.parentId
                    THEN [@[i] EXCEPT !.childIds = Append(@, op.node.id)]
                    ELSE @[i]],
                op.node),
            !.currentNodeId = op.node.id])
    ELSE IF op.op = "setCurrent" /\ history # None
    THEN Some([history[1] EXCEPT !.currentNodeId = op.nodeId])
    ELSE history

\* A change: its id <<actor, seq>>, the changes it depends on, its operations
\* and the greatest counter they use. `cmd` and `base` are observers: the
\* command the change was made for and the document's curves before it.
ChangeId(actor, seq) == [actor |-> actor, seq |-> seq]

\* Automerge.from({curves: [], users: {}}) on the hub: the document's first
\* change is the hub's own. gen is the number of documents the hub has made.
HubFrom(gen) ==
    [actor |-> <<0, gen>>, seq |-> 1, maxOp |-> 1, curves |-> <<>>, history |-> None,
     applied |-> {ChangeId(<<0, gen>>, 1)}, queue |-> {}, uploaded |-> None]

\* AutomergeManager's constructor: Automerge.from({curves: [], users: {},
\* history: initialHistory}) with a root node of its own.
ClientFrom(c) ==
    [actor |-> <<c, 0>>, seq |-> 1, maxOp |-> 1, curves |-> <<>>,
     history |-> Some([nodes |-> <<[id |-> OpId(1, <<c, 0>>), command |-> None,
                                    parentId |-> HEAD, childIds |-> <<>>]>>,
                       rootId |-> OpId(1, <<c, 0>>),
                       currentNodeId |-> OpId(1, <<c, 0>>)]),
     applied |-> {ChangeId(<<c, 0>>, 1)}, queue |-> {}, uploaded |-> None]

RECURSIVE ApplyOps(_, _)
ApplyOps(doc, ops) ==
    IF ops = <<>> THEN doc
    ELSE ApplyOps([doc EXCEPT !.curves = ApplyCurvesOp(@, Head(ops)),
                              !.history = ApplyHistoryOp(@, Head(ops))],
                  Tail(ops))

\* A change whose dependencies the document has, merged into it.
Incorporate(doc, ch) ==
    [ApplyOps(doc, ch.ops) EXCEPT
        !.applied = @ \cup {ch.id},
        !.maxOp = IF ch.maxOp > @ THEN ch.maxOp ELSE @,
        !.uploaded = IF ch.cmd.kind = "InitialSync" THEN Some(ch.cmd.curves) ELSE None]

\* The queued changes whose dependencies have arrived, merged in turn.
RECURSIVE Drain(_)
Drain(doc) ==
    LET ready == {q \in doc.queue : q.deps \subseteq doc.applied}
    IN  IF ready = {} THEN doc
        ELSE LET q == CHOOSE q \in ready : TRUE
             IN  Drain(Incorporate([doc EXCEPT !.queue = @ \ {q}], q))

\* Automerge.applyChanges(doc, [change]): a change the document has is
\* skipped, one with a dependency missing waits in the queue.
applyChanges(doc, ch) ==
    IF ch.id \in doc.applied THEN doc
    ELSE IF ch.deps \subseteq doc.applied THEN Drain(Incorporate(doc, ch))
    ELSE [doc EXCEPT !.queue = @ \cup {ch}]

\* Automerge.load(Automerge.save(doc)) by client c for the n-th time: the same
\* document under a fresh actor.
load(documentState, c, n) ==
    [documentState EXCEPT !.actor = <<c, n>>, !.seq = 0, !.queue = {}]

\* -------------------------------------------- a local transaction on the document
\* Automerge.change(doc, mutator): the mutator works on a draft; ok turns
\* FALSE when the mutator throws, and the draft is then dropped.
BeginTx(doc) ==
    [curves |-> doc.curves, history |-> doc.history, ops |-> <<>>,
     ctr |-> doc.maxOp + 1, actor |-> doc.actor, ok |-> TRUE]

TxOp(tx, op) ==
    [tx EXCEPT !.curves = ApplyCurvesOp(@, op),
               !.history = ApplyHistoryOp(@, op),
               !.ops = Append(@, op),
               !.ctr = @ + OpSize(op)]

\* The ids of the visible elements of a list.
VisibleIds(list) == {list[i].eid : i \in {j \in 1..Len(list) : ~list[j].deleted}}

\* The id of the last visible element, HEAD for none: where push inserts.
LastVisible(list) ==
    LET v == VisibleElems(list) IN IF v = <<>> THEN HEAD ELSE v[Len(v)].eid

\* onLocalCommand's currentById.get(id): the 0-based position of the last
\* document curve with that id before the transaction, -1 for undefined.
CurrentById(plain, id) ==
    IF \E i \in 1..Len(plain) : plain[i].id = id
    THEN (CHOOSE i \in 1..Len(plain) :
            plain[i].id = id /\ \A j \in (i + 1)..Len(plain) : plain[j].id # id) - 1
    ELSE -1

\* onLocalCommand: "Remove curves that no longer exist locally", from the
\* last document curve (position i) down to the first.
RECURSIVE RemoveMissing(_, _, _)
RemoveMissing(tx, localCurves, i) ==
    IF i = 0 THEN tx
    ELSE LET docCurve == VisibleElems(tx.curves)[i]
         IN  RemoveMissing(
                IF HasCurve(localCurves, docCurve.val.id) THEN tx
                ELSE TxOp(tx, SpliceCurvesOp(tx.ctr, tx.actor, {docCurve.eid}, HEAD, <<>>)),
                localCurves, i - 1)

\* onLocalCommand: "Update color if changed"
UpdateColor(tx, docCurve, localCurve) ==
    IF docCurve.val.color # localCurve.color
    THEN TxOp(tx, SetColorOp(tx.ctr, tx.actor, docCurve.eid, localCurve.color))
    ELSE tx

\* onLocalCommand: "Update points array if changed": the whole array is
\* replaced, docCurve.points.splice(0, docCurve.points.length, ...points).
UpdatePoints(tx, docCurve, localCurve) ==
    IF PlainPoints(docCurve.val.points) # localCurve.points
    THEN TxOp(tx, SplicePointsOp(tx.ctr, tx.actor, docCurve.eid,
                                 VisibleIds(docCurve.val.points), localCurve.points))
    ELSE tx

\* onLocalCommand: "Add or update curves", from local curve k on. currentIndex
\* was taken before the removals and is read after them: doc.curves[currentIndex]
\* may be another curve, or undefined, and reading its color then throws.
RECURSIVE UpdateCurves(_, _, _, _)
UpdateCurves(tx, localCurves, before, k) ==
    IF k > Len(localCurves) \/ ~tx.ok THEN tx
    ELSE LET localCurve == localCurves[k]
             currentIndex == CurrentById(before, localCurve.id)
             v == VisibleElems(tx.curves)
         IN  UpdateCurves(
                IF currentIndex = -1
                THEN TxOp(tx, SpliceCurvesOp(tx.ctr, tx.actor, {}, LastVisible(tx.curves),
                                             <<localCurve>>))
                ELSE IF currentIndex + 1 > Len(v) THEN [tx EXCEPT !.ok = FALSE]
                ELSE UpdatePoints(UpdateColor(tx, v[currentIndex + 1], localCurve),
                                  v[currentIndex + 1], localCurve),
                localCurves, before, k + 1)

\* SharedHistoryManager.extractCommandData(command): the fields it reads that
\* the command has (JSON drops the undefined ones).
extractCommandData(cmd) ==
    [f \in (DOMAIN cmd) \cap {"curveId", "point", "index", "oldPoint", "newPoint",
                              "curve", "oldColor", "newColor"} |-> cmd[f]]

\* SharedHistoryManager.serializeCommand(command): null for a kind it does not know.
serializeCommand(cmd) ==
    IF cmd.kind \in {"AddPoint", "RemovePoint", "MovePoint", "AddCurve", "RemoveCurve"}
    THEN Some([type |-> cmd.kind, data |-> extractCommandData(cmd)])
    ELSE None

\* SharedHistoryManager.createHistoryNode(command, parentId, description)
createHistoryNode(cmd, parentId, id) ==
    [id |-> id, command |-> serializeCommand(cmd), parentId |-> parentId,
     childIds |-> <<>>]

\* onLocalCommand: "Update shared history tree (if history exists)"
UpdateHistory(tx, cmd) ==
    IF tx.ok /\ tx.history # None
    THEN TxOp(tx, AddHistoryOp(tx.ctr, tx.actor,
                    createHistoryNode(cmd, tx.history[1].currentNodeId,
                                      OpId(tx.ctr, tx.actor))))
    ELSE tx

\* The mutator of onLocalCommand run on a draft of doc against the store's curves.
onLocalCommandTx(doc, cmd, localCurves) ==
    LET before == PlainCurves(doc.curves)
        removed == RemoveMissing(BeginTx(doc), localCurves, Len(before))
    IN  UpdateHistory(UpdateCurves(removed, localCurves, before, 1), cmd)

\* The mutator of syncInitialState:
\* doc.curves.splice(0, doc.curves.length, ...curvesToSync)
syncInitialStateTx(doc, curvesToSync) ==
    LET tx == BeginTx(doc)
    IN  TxOp(tx, SpliceCurvesOp(tx.ctr, tx.actor, VisibleIds(doc.curves), HEAD, curvesToSync))

\* AutomergeManager.executeLocalCommand: the change a finished draft makes,
\* none (null) when the mutator threw or changed nothing.
TxChange(doc, tx, cmd) ==
    IF tx.ok /\ tx.ops # <<>>
    THEN Some([id |-> ChangeId(doc.actor, doc.seq + 1), deps |-> doc.applied,
               ops |-> tx.ops, maxOp |-> tx.ctr - 1, cmd |-> cmd,
               base |-> PlainCurves(doc.curves)])
    ELSE None

\* AutomergeManager.executeLocalCommand: the document after.
TxDoc(doc, tx) ==
    IF tx.ok /\ tx.ops # <<>>
    THEN [doc EXCEPT !.curves = tx.curves, !.history = tx.history,
                     !.seq = @ + 1, !.maxOp = tx.ctr - 1,
                     !.applied = @ \cup {ChangeId(doc.actor, doc.seq + 1)},
                     !.uploaded = None]
    ELSE doc

\* ------------------------------------------------------------ shared history
\* history.nodes[id]
HistoryNodeAt(h, id) == h.nodes[CHOOSE i \in 1..Len(h.nodes) : h.nodes[i].id = id]

\* SharedHistoryManager.getPathToNode(history, nodeId): the node ids from
\* below the root down to nodeId.
RECURSIVE getPathToNode(_, _)
getPathToNode(history, nodeId) ==
    IF nodeId = HEAD \/ nodeId = history.rootId THEN <<>>
    ELSE Append(getPathToNode(history, HistoryNodeAt(history, nodeId).parentId), nodeId)

\* A call that returned value v, and a call that threw.
Returned(v) == [ok |-> TRUE, value |-> v]
Threw == [ok |-> FALSE, value |-> NoCommand]

\* SharedHistoryManager.deserializeCommand(serialized): the command's
\* constructor called with the fields of data; a field data lacks is
\* undefined, and RemoveCurveCommand's constructor throws on an undefined
\* curve (JSON.parse(JSON.stringify(undefined))).
deserializeCommand(serialized) ==
    LET data == serialized.data
    IN  CASE serialized.type = "AddPoint" ->
                Returned(AddPointCommand(data.curveId, data.point))
          [] serialized.type = "RemovePoint" ->
                Returned(RemovePointCommand(data.curveId, data.index, data.point))
          [] serialized.type = "MovePoint" ->
                Returned(MovePointCommand(data.curveId, data.index, data.oldPoint,
                                          data.newPoint))
          [] serialized.type = "AddCurve" -> Returned(AddCurveCommand(data.curve))
          [] serialized.type = "RemoveCurve" ->
                IF "curve" \in DOMAIN data
                THEN Returned(RemoveCurveCommand(data.curve,
                                IF "index" \in DOMAIN data THEN data.index ELSE 0))
                ELSE Threw

\* reconstructState: the commands of the nodes on path replayed on curves cs.
RECURSIVE ReplayNodes(_, _, _)
ReplayNodes(history, path, cs) ==
    IF path = <<>> THEN Returned(cs)
    ELSE LET node == HistoryNodeAt(history, Head(path))
         IN  IF node.command = None THEN ReplayNodes(history, Tail(path), cs)
             ELSE LET command == deserializeCommand(node.command[1])
                  IN  IF command.ok
                      THEN ReplayNodes(history, Tail(path), Execute(command.value, cs))
                      ELSE Threw

\* SharedHistoryManager.reconstructState(history, targetNodeId, initialCurves)
reconstructState(history, targetNodeId, initialCurves) ==
    ReplayNodes(history, getPathToNode(history, targetNodeId), initialCurves)

\* The command under test is serialized as createHistoryNode does and the
\* command deserializeCommand rebuilds from that is executed, as
\* reconstructState does: deserializeCommand(serializeCommand(c)).execute(state).
\* phase tells how far it got: "unserialized" when serializeCommand returned
\* null, "threw" when the rebuilding threw, "rebuilt" when the rebuilt
\* command ran.
CmdRebuild ==
    LET serialized == serializeCommand(theCommand)
        rebuilt == deserializeCommand(serialized[1])
    IN  /\ phase = "new"
        /\ IF serialized = None
           THEN phase' = "unserialized" /\ UNCHANGED curves
           ELSE IF ~rebuilt.ok
           THEN phase' = "threw" /\ UNCHANGED curves
           ELSE phase' = "rebuilt" /\ curves' = Execute(rebuilt.value, curves)
        /\ lastOp' = "rebuild"
        /\ UNCHANGED <<activeCurveId, nextColorIndex, nextCurveId, tree, currentNode,
                       selectedChildIndex, branches, store0, active0, theCommand,
                       collabVars, serverVars>>

CmdNext == CmdExecute \/ CmdUndo \/ CmdRebuild

\* ----------------------------------------------- CurveManager.fromJSON alone
\* The parsed data handed to fromJSON: hasCurves says whether data.curves is
\* there (and truthy), isArray whether it is an array, items are its elements.
\* An element's id or color that is missing is Null.
JsonElements ==
    { Curve("file", colorPalette[2], <<[x |-> 10, y |-> 10]>>),
      Curve(Null, colorPalette[2], <<>>),
      Curve(CurveId(1), Null, <<[x |-> 20, y |-> 20]>>) }

JsonData ==
    { [hasCurves |-> FALSE, isArray |-> FALSE, items |-> <<>>],
      [hasCurves |-> TRUE, isArray |-> FALSE, items |-> <<>>] }
    \cup {[hasCurves |-> TRUE, isArray |-> TRUE, items |-> items] :
              items \in UNION {[1..k -> JsonElements] : k \in 0..MaxCurves}}

\* CurveManager.fromJSON(data): the store and the active curve id after.
\* this.curves[0]?.id || null
fromJSON(data, cs, active) ==
    IF data.hasCurves /\ data.isArray
    THEN [curves |-> data.items,
          activeCurveId |-> IF Len(data.items) > 0 THEN data.items[1].id ELSE Null]
    ELSE [curves |-> cs, activeCurveId |-> active]

\* A store, and data to call fromJSON with.
JsonInit ==
    /\ curves \in CmdStores
    /\ activeCurveId \in {CurveId(1), Null}
    /\ nextColorIndex = 1
    /\ nextCurveId = 2
    /\ tree = <<HistoryNode(NoCommand, 0)>>
    /\ currentNode = Root
    /\ selectedChildIndex = 0
    /\ branches = <<>>
    /\ lastOp = "init"
    /\ store0 = curves
    /\ active0 = activeCurveId
    /\ theCommand \in {[kind |-> "fromJSON", data |-> d] : d \in JsonData}
    /\ phase = "new"

\* curveManager.fromJSON(data)
FromJSONCall ==
    LET r == fromJSON(theCommand.data, curves, activeCurveId)
    IN  /\ phase = "new"
        /\ theCommand.kind = "fromJSON"
        /\ curves' = r.curves
        /\ activeCurveId' = r.activeCurveId
        /\ phase' = "loaded"
        /\ lastOp' = "fromJSON"
        /\ UNCHANGED <<nextColorIndex, nextCurveId, tree, currentNode,
                       selectedChildIndex, branches, store0, active0, theCommand,
                       collabVars, serverVars>>

\* CollaborationManager.undo: the node to move to, none when the document has
\* no history or the current node has no parent.
undoTarget(doc) ==
    IF doc.history = None THEN None
    ELSE LET h == doc.history[1]
         IN  IF \A i \in 1..Len(h.nodes) : h.nodes[i].id # h.currentNodeId THEN None
             ELSE IF HistoryNodeAt(h, h.currentNodeId).parentId = HEAD THEN None
             ELSE Some(HistoryNodeAt(h, h.currentNodeId).parentId)

\* CollaborationManager.redo: the node to move to, the current node's first child.
redoTarget(doc) ==
    IF doc.history = None THEN None
    ELSE LET h == doc.history[1]
         IN  IF \A i \in 1..Len(h.nodes) : h.nodes[i].id # h.currentNodeId THEN None
             ELSE IF HistoryNodeAt(h, h.currentNodeId).childIds = <<>> THEN None
             ELSE Some(HistoryNodeAt(h, h.currentNodeId).childIds[1])

\* The mutator of shared undo and redo: doc.history.currentNodeId = newCurrentId,
\* then doc.curves.splice(0, doc.curves.length, ...reconstructed); a throw of
\* reconstructState drops the draft.
sharedMoveTx(doc, newCurrentId) ==
    LET tx == TxOp(BeginTx(doc), SetCurrentOp(doc.maxOp + 1, doc.actor, newCurrentId))
        reconstructedCurves == reconstructState(doc.history[1], newCurrentId, <<>>)
    IN  IF ~reconstructedCurves.ok THEN [tx EXCEPT !.ok = FALSE]
        ELSE IF VisibleIds(tx.curves) = {} /\ reconstructedCurves.value = <<>> THEN tx
        ELSE TxOp(tx, SpliceCurvesOp(tx.ctr, tx.actor, VisibleIds(tx.curves), HEAD,
                                     reconstructedCurves.value))

\* ----------------------------------------------------- clients and the hub
\* The n-th curve id client c's store issues.
ClientCurveId(c, n) == "u" \o ToString(c) \o "c" \o ToString(n)

\* A client before collaboration is enabled: the store holds its first, empty
\* curve; the CollaborationManager holds a document of its own making.
\*   ws       "none" | "connecting" | "open" | "closed": the WebSocket
\*   timer    a reconnect is scheduled
\*   pending  pendingCurves is set (it is the store's own array)
\*   loads    the documents loaded so far
\*   reconnectTimeout  WebSocketClient.reconnectTimeout, in ms
\*   isApplyingRemoteChange  CollaborationManager.isApplyingRemoteChange
\*   delay    the delay the scheduled reconnect was given to setTimeout, in ms
\* Observers: attempts (the reconnects scheduled since a connection last
\* opened), synced (the sync-response of this connection is loaded), made
\* (the changes created), offline (the ids of those created while a lost
\* connection was down), commands, drops and moves (counts; moves are the
\* shared undo and redo requests), shared (the last shared request, "none" before any, and
\* what it returned).
\* WebSocketClient: reconnectTimeout starts at 1000 ms and is capped at
\* maxReconnectTimeout.
firstReconnectTimeout == 1000
maxReconnectTimeout == 30000

ClientInit(c) ==
    [enabled |-> FALSE, ws |-> "none", timer |-> FALSE,
     reconnectTimeout |-> firstReconnectTimeout, delay |-> 0, attempts |-> 0,
     isApplyingRemoteChange |-> FALSE,
     store |-> <<Curve(ClientCurveId(c, 1), colorPalette[1], <<>>)>>,
     active |-> ClientCurveId(c, 1), nextId |-> 2, nextColorIndex |-> 1,
     doc |-> ClientFrom(c), loads |-> 0, pending |-> FALSE, synced |-> FALSE,
     made |-> {}, offline |-> {}, commands |-> 0, drops |-> 0, moves |-> 0,
     shared |-> [op |-> "none", ok |-> FALSE], discarded |-> None]

\* The hub's session "default": its document (none until the first
\* sync-request, and again after the session is deleted) and its clients.
\* Observers: gen (documents created), answers and firstAnswers (the
\* sync-responses, and those with isFirstUser, sent for the current document).
HubInit ==
    [doc |-> None, clients |-> {}, gen |-> 0, answers |-> 0, firstAnswers |-> 0,
     discarded |-> None]

CollabInit ==
    /\ client = [c \in Clients |-> ClientInit(c)]
    /\ hub = HubInit
    /\ c2h = [c \in Clients |-> <<>>]
    /\ h2c = [c \in Clients |-> <<>>]

\* Nobody collaborates: the value of collabVars outside SpecCollab.
CollabIdle == CollabInit

SyncRequest(c) == [type |-> "sync-request", senderId |-> c]
SyncResponse(documentState, first) ==
    [type |-> "sync-response", documentState |-> documentState, isFirstUser |-> first]
ChangeMessage(c, changes) == [type |-> "change", senderId |-> c, changes |-> changes]

\* WebSocketClient.send: dropped silently unless the socket is open.
send(c, ws, messages) == IF ws = "open" THEN c2h[c] \o messages ELSE c2h[c]

\* Where client c's user clicks and drops: a position of their own.
ClickPoint(c) == [x |-> 10 * c, y |-> 10 * c]

\* The commands client c's UI can construct against its store: add a point to,
\* remove or move a point of the active curve, add a curve, delete the active curve.
ClientCommands(c) ==
    LET cl == client[c]
        ai == ActiveIndex(cl.store, cl.active)
        pts == IF ai = 0 THEN <<>> ELSE cl.store[ai].points
    IN  {AddPointCommand(cl.active, p) :
            p \in {q \in {ClickPoint(c)} : ai # 0 /\ Len(pts) < MaxPoints}}
        \cup {RemovePointCommand(cl.active, i - 1, pts[i]) : i \in 1..Len(pts)}
        \cup {MovePointCommand(cl.active, i - 1, pts[i], ClickPoint(c)) :
                i \in {k \in 1..Len(pts) : pts[k] # ClickPoint(c)}}
        \cup {AddCurveCommand(Curve(ClientCurveId(c, cl.nextId),
                                    colorPalette[cl.nextColorIndex + 1], <<>>)) :
                x \in {y \in {1} : Len(cl.store) < MaxCurves /\ cl.nextId <= MaxCurveId}}
        \cup {RemoveCurveCommand(cl.store[i], i - 1) : i \in {j \in 1..Len(cl.store) : j = ai}}

\* The active curve id after the coordinator ran the command.
ActiveAfter(cmd, cs, active) ==
    IF cmd.kind = "LoadCurves"
    THEN IF Len(cmd.newCurves) > 0 THEN cmd.newCurves[1].id ELSE active
    ELSE syncStateFromHistory(GetAffectedCurveId(cmd), cs, active)

\* StateManager.applyRemoteChanges(curves): the active curve id after.
RemoteActive(cs, active) ==
    IF ~HasCurve(cs, active) /\ Len(cs) > 0 THEN cs[1].id ELSE active

TotalCommands == client[1].commands + client[2].commands

TotalDrops == client[1].drops + client[2].drops

TotalMoves == client[1].moves + client[2].moves

\* A user action of client c that runs cmd through HistoryManager.executeCommand:
\* command.execute on the store, then CollaborationManager.onLocalCommand.
\* (The client's local tree is the one of the local application above; the
\* collaboration layer does not read it.)
\* CollaborationManager.onLocalCommand's guard, negated: it returns at once
\* when not enabled or while a remote change is being applied.
onLocalCommandRuns(cl) == cl.enabled /\ ~cl.isApplyingRemoteChange

onCommand(c, cmd, max) ==
    LET cl == client[c]
        store == Execute(cmd, cl.store)
        tx == onLocalCommandTx(cl.doc, cmd, store)
        change == IF onLocalCommandRuns(cl) THEN TxChange(cl.doc, tx, cmd) ELSE None
    IN  /\ TotalCommands < max
        /\ cmd \in ClientCommands(c)
        /\ client' = [client EXCEPT ![c] = [@ EXCEPT
                !.store = store,
                !.active = ActiveAfter(cmd, store, cl.active),
                !.nextId = IF cmd.kind = "AddCurve" THEN @ + 1 ELSE @,
                !.nextColorIndex =
                    IF cmd.kind = "AddCurve" THEN (@ + 1) % Len(colorPalette) ELSE @,
                !.doc = IF onLocalCommandRuns(cl) THEN TxDoc(cl.doc, tx) ELSE @,
                !.made = @ \cup {change[i] : i \in 1..Len(change)},
                !.offline = IF cl.ws \in {"closed", "connecting"} /\ cl.drops > 0
                            THEN @ \cup {change[i].id : i \in 1..Len(change)}
                            ELSE @,
                !.commands = @ + 1]]
        /\ c2h' = [c2h EXCEPT ![c] =
                send(c, cl.ws, [i \in 1..Len(change) |-> ChangeMessage(c, change[i])])]
        /\ UNCHANGED <<hub, h2c>>

\* A user action of client c, seen from the collaboration layer alone.
LocalCommand(c, cmd, max) == onCommand(c, cmd, max) /\ UNCHANGED <<localVars, cmdVars, serverVars>>

\* CollaborationUIManager: the toggle, off -> on. CollaborationManager.enable
\* keeps the store's array as pendingCurves and calls WebSocketClient.connect.
Enable(c) ==
    /\ ~client[c].enabled
    /\ client[c].ws = "none"
    /\ client' = [client EXCEPT ![c] = [@ EXCEPT
            !.enabled = TRUE, !.pending = TRUE, !.ws = "connecting"]]
    /\ UNCHANGED <<hub, c2h, h2c, localVars, cmdVars, serverVars>>

\* WebSocketClient: ws.onopen resets reconnectTimeout and sends the
\* sync-request.
Open(c) ==
    /\ client[c].ws = "connecting"
    /\ client' = [client EXCEPT ![c] = [@ EXCEPT !.ws = "open",
            !.reconnectTimeout = firstReconnectTimeout, !.attempts = 0]]
    /\ c2h' = [c2h EXCEPT ![c] = Append(@, SyncRequest(c))]
    /\ UNCHANGED <<hub, h2c, localVars, cmdVars, serverVars>>

\* A slip the hub could make: the first user is the one who finds no other
\* client in the session.
isFirstUserAlone(session) == session.clients = {}

\* websocket-server, 'sync-request': isFirstUser = currentSession.doc === null
isFirstUser(session) == session.doc = None

\* websocket-server, 'sync-request' from client c's connection
HubSyncRequest(c) ==
    LET first == isFirstUser(hub)
        created == hub.doc = None
        doc == IF created THEN HubFrom(hub.gen + 1) ELSE hub.doc[1]
    IN  /\ c2h[c] # <<>>
        /\ Head(c2h[c]).type = "sync-request"
        /\ hub' = [hub EXCEPT
                !.clients = @ \cup {c},
                !.doc = Some(doc),
                !.gen = IF created THEN @ + 1 ELSE @,
                !.answers = (IF created THEN 0 ELSE @) + 1,
                !.firstAnswers = (IF created THEN 0 ELSE @) + (IF first THEN 1 ELSE 0)]
        /\ c2h' = [c2h EXCEPT ![c] = Tail(@)]
        /\ h2c' = [h2c EXCEPT ![c] = Append(@, SyncResponse(doc, first))]
        /\ UNCHANGED <<client, localVars, cmdVars, serverVars>>

\* websocket-server, broadcast(session, message, sender)
broadcast(session, message, sender) ==
    [d \in Clients |->
        IF d \in session.clients /\ d # sender THEN Append(h2c[d], message) ELSE h2c[d]]

\* Bytes that do not decode to a change: Automerge.applyChanges throws on them.
Malformed == [bytes |-> "garbage"]
applyChangesThrows(ch) == "id" \notin DOMAIN ch

\* websocket-server, 'change' from client c's connection: the apply sits in a
\* try/catch that logs, the broadcast follows either way.
HubChange(c) ==
    LET message == Head(c2h[c])
        threw == hub.doc # None /\ applyChangesThrows(message.changes)
    IN  /\ c2h[c] # <<>>
        /\ message.type = "change"
        /\ c2h' = [c2h EXCEPT ![c] = Tail(@)]
        /\ IF c \in hub.clients
           THEN /\ hub' = [hub EXCEPT
                        !.doc = IF @ # None /\ ~threw
                                THEN Some(applyChanges(@[1], message.changes)) ELSE @,
                        !.discarded = IF threw THEN Some(hub.doc[1].applied) ELSE @]
                /\ h2c' = broadcast(hub, message, c)
           ELSE UNCHANGED <<hub, h2c>>
        /\ UNCHANGED <<client, localVars, cmdVars, serverVars>>

\* A slip onSyncResponse could make: the load never tells the store.
skipCallbacksAlways(first) == TRUE

\* onSyncResponse: const skipCallbacks = isFirstUser
skipCallbacks(first) == first

\* WebSocketClient.handleMessage, 'sync-response' -> CollaborationManager's
\* onSyncResponse: AutomergeManager.load, then for the first user syncInitialState.
ClientSyncResponse(c) ==
    LET cl == client[c]
        message == Head(h2c[c])
        loaded == load(message.documentState, c, cl.loads + 1)
        skip == skipCallbacks(message.isFirstUser)
        store == IF skip THEN cl.store ELSE PlainCurves(loaded.curves)
        upload == message.isFirstUser /\ cl.pending /\ Len(store) > 0
        tx == syncInitialStateTx(loaded, store)
        change == IF upload
                  THEN TxChange(loaded, tx, [kind |-> "InitialSync", curves |-> store])
                  ELSE None
    IN  /\ h2c[c] # <<>>
        /\ message.type = "sync-response"
        /\ client' = [client EXCEPT ![c] = [@ EXCEPT
                !.doc = IF upload THEN TxDoc(loaded, tx) ELSE loaded,
                !.loads = @ + 1,
                !.store = store,
                !.active = IF skip THEN @ ELSE RemoteActive(store, @),
                !.pending = IF message.isFirstUser THEN FALSE ELSE @,
                !.synced = TRUE,
                !.made = @ \cup {change[i] : i \in 1..Len(change)}]]
        /\ h2c' = [h2c EXCEPT ![c] = Tail(@)]
        /\ c2h' = [c2h EXCEPT ![c] =
                send(c, cl.ws, [i \in 1..Len(change) |-> ChangeMessage(c, change[i])])]
        /\ UNCHANGED <<hub, localVars, cmdVars, serverVars>>

\* A slip handleMessage could make: no message counts as the client's own.
sentBySelfNever(c, message) == FALSE

\* WebSocketClient.handleMessage, 'change': message.senderId === this.userId
sentBySelf(c, message) == message.senderId = c

\* A slip applyRemoteChanges could make: the presence update, "always" sent,
\* sits after the try/catch.
automergeApplyRemoteChangesPresenceAfter(doc, ch) ==
    [doc |-> IF applyChangesThrows(ch) THEN doc ELSE applyChanges(doc, ch),
     fired |-> {"onPresenceUpdate"}]

\* AutomergeManager.applyRemoteChanges(changes): the document after and the
\* callbacks fired. When Automerge.applyChanges throws, the catch logs and
\* nothing else has run.
automergeApplyRemoteChanges(doc, ch) ==
    IF applyChangesThrows(ch)
    THEN [doc |-> doc, fired |-> {}]
    ELSE LET newDoc == applyChanges(doc, ch)
         IN  [doc |-> newDoc,
              fired |-> {n \in {"onRemoteChange"} :
                            PlainCurves(newDoc.curves) # PlainCurves(doc.curves)}
                        \cup {n \in {"onHistoryChange"} :
                                newDoc.history # doc.history /\ newDoc.history # None}
                        \cup {"onPresenceUpdate"}]

\* WebSocketClient.handleMessage, 'change': the document after; a message of
\* the client's own is dropped before AutomergeManager.applyRemoteChanges.
handleChange(c, doc, message) ==
    IF ~sentBySelf(c, message)
    THEN automergeApplyRemoteChanges(doc, message.changes).doc
    ELSE doc

\* A slip the callback could make: the flag is set and never cleared.
automergeOnRemoteChangeFlagLeft(cl, cs) ==
    IF ~cl.isApplyingRemoteChange
    THEN [cl EXCEPT !.store = cs, !.active = RemoteActive(cs, @),
                    !.isApplyingRemoteChange = TRUE]
    ELSE cl

\* CollaborationManager's automerge callback onRemoteChange(curves): unless the
\* flag is set, it sets the flag, runs StateManager.applyRemoteChanges (which
\* goes through executeRemoteCommand and so calls no collaboration callback)
\* and clears the flag.
automergeOnRemoteChange(cl, cs) ==
    IF ~cl.isApplyingRemoteChange
    THEN [cl EXCEPT !.store = cs, !.active = RemoteActive(cs, @),
                    !.isApplyingRemoteChange = FALSE]
    ELSE cl

\* WebSocketClient.handleMessage, 'change' -> AutomergeManager.applyRemoteChanges
\* -> onRemoteChange -> StateManager.applyRemoteChanges when the curves changed.
ClientChange(c) ==
    LET cl == client[c]
        message == Head(h2c[c])
        newDoc == handleChange(c, cl.doc, message)
        applies == ~sentBySelf(c, message)
        changed == applies /\ "onRemoteChange" \in
                        automergeApplyRemoteChanges(cl.doc, message.changes).fired
        after == [cl EXCEPT
                    !.doc = newDoc,
                    !.discarded = IF applies /\ applyChangesThrows(message.changes)
                                  THEN Some(cl.doc.applied) ELSE @]
    IN  /\ h2c[c] # <<>>
        /\ message.type = "change"
        /\ client' = [client EXCEPT ![c] =
                IF changed
                THEN automergeOnRemoteChange(after, PlainCurves(newDoc.curves))
                ELSE after]
        /\ h2c' = [h2c EXCEPT ![c] = Tail(@)]
        /\ UNCHANGED <<hub, c2h, localVars, cmdVars, serverVars>>

\* CollaborationManager.undo / redo toward node `target` (none: it returns
\* false before touching anything). The change moves currentNodeId and
\* replaces the curves by the reconstruction; it is sent, and the store is
\* overwritten through onRemoteChange with the document's curves.
sharedMove(c, op, target) ==
    LET cl == client[c]
        tx == sharedMoveTx(cl.doc, target[1])
        change == TxChange(cl.doc, tx, [kind |-> "SharedMove"])
        newDoc == TxDoc(cl.doc, tx)
    IN  IF target = None
        THEN /\ client' = [client EXCEPT ![c] = [@ EXCEPT
                    !.moves = @ + 1, !.shared = [op |-> op, ok |-> FALSE]]]
             /\ UNCHANGED c2h
        ELSE /\ client' = [client EXCEPT ![c] = [@ EXCEPT
                    !.doc = newDoc,
                    !.store = PlainCurves(newDoc.curves),
                    !.active = RemoteActive(PlainCurves(newDoc.curves), @),
                    !.made = @ \cup {change[i] : i \in 1..Len(change)},
                    !.moves = @ + 1,
                    !.shared = [op |-> op, ok |-> TRUE]]]
             /\ c2h' = [c2h EXCEPT ![c] =
                    send(c, cl.ws, [i \in 1..Len(change) |-> ChangeMessage(c, change[i])])]

\* StateManager.undo with collaboration enabled and connected: it delegates
\* to CollaborationManager.undo. (Otherwise it is UndoClick on the local tree.)
SharedUndo(c) ==
    /\ client[c].enabled
    /\ client[c].ws = "open"
    /\ TotalMoves < MaxSharedMoves
    /\ sharedMove(c, "undo", undoTarget(client[c].doc))
    /\ UNCHANGED <<hub, h2c, localVars, cmdVars, serverVars>>

\* StateManager.redo with collaboration enabled and connected: it delegates
\* to CollaborationManager.redo.
SharedRedo(c) ==
    /\ client[c].enabled
    /\ client[c].ws = "open"
    /\ TotalMoves < MaxSharedMoves
    /\ sharedMove(c, "redo", redoTarget(client[c].doc))
    /\ UNCHANGED <<hub, h2c, localVars, cmdVars, serverVars>>

\* The connection of client c is lost. Client: ws.onclose -> onDisconnected,
\* scheduleReconnect. Hub: ws.on('close') takes the client out of the session.
\* What was in flight either way is gone.
onclose(c, max) ==
    /\ client[c].ws \in {"connecting", "open"}
    /\ TotalDrops < max
    /\ client' = [client EXCEPT ![c] = [@ EXCEPT
            !.ws = "closed", !.timer = TRUE, !.synced = FALSE, !.drops = @ + 1,
            !.delay = client[c].reconnectTimeout, !.attempts = @ + 1]]
    /\ hub' = [hub EXCEPT !.clients = @ \ {c}]
    /\ c2h' = [c2h EXCEPT ![c] = <<>>]
    /\ h2c' = [h2c EXCEPT ![c] = <<>>]
    /\ UNCHANGED <<localVars, cmdVars, serverVars>>

ConnectionLost(c) == onclose(c, MaxDrops)

\* CollaborationUIManager: the toggle, on -> off. CollaborationManager.disable
\* clears `enabled` and calls WebSocketClient.disconnect: a socket there is gets
\* close() and this.ws = null. The socket, now closing, delivers no message
\* any more and the hub loses the client; a socket already closed stays so,
\* and a reconnect timer already set is not cancelled.
Disable(c) ==
    /\ client[c].enabled
    /\ client' = [client EXCEPT ![c] = [@ EXCEPT
            !.enabled = FALSE,
            !.ws = IF @ \in {"connecting", "open"} THEN "closing" ELSE @,
            !.synced = FALSE]]
    /\ hub' = [hub EXCEPT !.clients = @ \ {c}]
    /\ c2h' = [c2h EXCEPT ![c] = <<>>]
    /\ h2c' = [h2c EXCEPT ![c] = <<>>]
    /\ UNCHANGED <<localVars, cmdVars, serverVars>>

\* The close event of the socket that disconnect() closed: its onclose handler
\* is still attached, so it calls onDisconnected and scheduleReconnect.
oncloseAfterDisconnect(c) ==
    /\ client[c].ws = "closing"
    /\ client' = [client EXCEPT ![c] = [@ EXCEPT
            !.ws = "closed", !.timer = TRUE,
            !.delay = client[c].reconnectTimeout, !.attempts = @ + 1]]
    /\ UNCHANGED <<hub, c2h, h2c, localVars, cmdVars, serverVars>>

\* WebSocketClient.scheduleReconnect, in the timer callback:
\* Math.min(this.reconnectTimeout * 2, this.maxReconnectTimeout)
nextReconnectTimeout(t) ==
    IF t * 2 < maxReconnectTimeout THEN t * 2 ELSE maxReconnectTimeout

\* WebSocketClient.scheduleReconnect: the timer fires, calls connect() and
\* then doubles reconnectTimeout.
ReconnectTimer(c) ==
    /\ client[c].timer
    /\ client' = [client EXCEPT ![c] = [@ EXCEPT !.ws = "connecting", !.timer = FALSE,
            !.delay = 0,
            !.reconnectTimeout = nextReconnectTimeout(client[c].reconnectTimeout)]]
    /\ UNCHANGED <<hub, c2h, h2c, localVars, cmdVars, serverVars>>

\* The same timer when new WebSocket(url) throws inside connect(): the catch
\* calls scheduleReconnect with the reconnectTimeout of that moment, and only
\* after connect() has returned does the callback double it.
ReconnectTimerThrows(c) ==
    /\ client[c].timer
    /\ client[c].attempts < MaxAttempts
    /\ client' = [client EXCEPT ![c] = [@ EXCEPT
            !.delay = client[c].reconnectTimeout, !.attempts = @ + 1,
            !.reconnectTimeout = nextReconnectTimeout(client[c].reconnectTimeout)]]
    /\ UNCHANGED <<hub, c2h, h2c, localVars, cmdVars, serverVars>>

\* A joined connection sends a 'change' whose bytes are no Automerge change
\* (a peer that is not this program, or a message damaged on the way).
SendMalformed(c) ==
    /\ client[c].ws = "open"
    /\ client[c].synced
    /\ hub.discarded = None
    /\ \A d \in Clients :
            \A i \in 1..Len(c2h[d]) :
                c2h[d][i].type = "change" => ~applyChangesThrows(c2h[d][i].changes)
    /\ c2h' = [c2h EXCEPT ![c] = Append(@, ChangeMessage(c, Malformed))]
    /\ UNCHANGED <<client, hub, h2c, localVars, cmdVars, serverVars>>

\* websocket-server: the timeout set on the last client's close deletes the
\* session once it has stayed empty and idle for 60 s.
HubCleanup ==
    /\ hub.doc # None
    /\ hub.clients = {}
    /\ hub.gen < MaxSessions
    /\ hub' = [hub EXCEPT !.doc = None, !.answers = 0, !.firstAnswers = 0]
    /\ UNCHANGED <<client, c2h, h2c, localVars, cmdVars, serverVars>>

\* ------------------------------------------ the hub's session table in time
\* Time is counted in half minutes. A record's age is the time since its
\* lastActivity, kept up to one step past the longest limit.
\* setTimeout(..., 60000) of the 'close' handler
CleanupDelay == 2
\* Date.now() - currentSession.lastActivity > 60000
IdleLimit == 2
\* now - session.lastActivity > 3600000
InactiveLimit == 120

AgeCap == InactiveLimit + 1

\* sessions: the Map's entry for 'default' (the index of a record, or none);
\* records: every session object created so far, in the table or not;
\* currentSession: per connection, the record it joined (0 for null);
\* timeouts: the pending timers of the 'close' handler, each with the record
\* its closure holds and the time left. Observers: closes, ticks, and
\* lastChange: the connection the last 'change' came from, the record whose
\* document it was applied to and the connections it was forwarded to.
ServerInit ==
    server = [sessions |-> None, records |-> <<>>,
              currentSession |-> [c \in Clients |-> 0],
              timeouts |-> {}, closes |-> 0, ticks |-> 0, lastChange |-> None]

\* A timer is due now: it runs before the clock moves on.
TimeoutDue == \E t \in server.timeouts : t.left = 0

\* getSession('default'), then clients.add(ws) and lastActivity = Date.now(),
\* on the first message of a new connection of client c.
ServerSyncRequest(c) ==
    LET created == server.sessions = None
        k == IF created THEN Len(server.records) + 1 ELSE server.sessions[1]
        records == IF created
                   THEN Append(server.records, [clients |-> {}, age |-> 0])
                   ELSE server.records
    IN  /\ ~TimeoutDue
        /\ server.currentSession[c] = 0
        /\ created => Len(server.records) < MaxRecords
        /\ server' = [server EXCEPT
                !.sessions = Some(k),
                !.records = [records EXCEPT ![k] =
                                [clients |-> @.clients \cup {c}, age |-> 0]],
                !.currentSession = [@ EXCEPT ![c] = k]]
        /\ UNCHANGED <<localVars, cmdVars, collabVars>>

\* 'change' on a connection that joined: currentSession.lastActivity =
\* Date.now(), the blob is applied to currentSession.doc and the message goes
\* to broadcast(currentSession, message, ws).
ServerChange(c) ==
    LET k == server.currentSession[c]
    IN  /\ ~TimeoutDue
        /\ k # 0
        /\ server.records[k].age # 0
        /\ server' = [server EXCEPT
                !.records = [@ EXCEPT ![k].age = 0],
                !.lastChange = Some([from |-> c, record |-> k,
                                     to |-> server.records[k].clients \ {c}])]
        /\ UNCHANGED <<localVars, cmdVars, collabVars>>

\* ws.on('close'): currentSession.clients.delete(ws); when that leaves the
\* record empty, the timer is set.
ServerClose(c) ==
    LET k == server.currentSession[c]
        left == server.records[k].clients \ {c}
    IN  /\ ~TimeoutDue
        /\ k # 0
        /\ server.closes < MaxCloses
        /\ server' = [server EXCEPT
                !.records = [@ EXCEPT ![k].clients = left],
                !.currentSession = [@ EXCEPT ![c] = 0],
                !.timeouts = IF left = {}
                             THEN @ \cup {[session |-> k, left |-> CleanupDelay]}
                             ELSE @,
                !.closes = @ + 1]
        /\ UNCHANGED <<localVars, cmdVars, collabVars>>

\* The timer's callback: when the record it holds is empty and idle, it
\* deletes the table's entry for that record's id.
ServerTimeout(t) ==
    LET record == server.records[t.session]
    IN  /\ t \in server.timeouts
        /\ t.left = 0
        /\ server' = [server EXCEPT
                !.timeouts = @ \ {t},
                !.sessions = IF record.clients = {} /\ record.age > IdleLimit
                             THEN None ELSE @]
        /\ UNCHANGED <<localVars, cmdVars, collabVars>>

\* setInterval: a run of the periodic cleanup that finds the table's record
\* empty and inactive.
ServerInterval ==
    /\ ~TimeoutDue
    /\ server.sessions # None
    /\ server.records[server.sessions[1]].clients = {}
    /\ server.records[server.sessions[1]].age > InactiveLimit
    /\ server' = [server EXCEPT !.sessions = None]
    /\ UNCHANGED <<localVars, cmdVars, collabVars>>

\* The ages after n half minutes.
Aged(records, n) ==
    [k \in 1..Len(records) |->
        [records[k] EXCEPT !.age = IF @ + n > AgeCap THEN AgeCap ELSE @ + n]]

\* Half a minute passes.
Tick ==
    /\ ~TimeoutDue
    /\ server.ticks < MaxTicks
    /\ server' = [server EXCEPT
            !.records = Aged(@, 1),
            !.timeouts = {[t EXCEPT !.left = @ - 1] : t \in @},
            !.ticks = @ + 1]
    /\ UNCHANGED <<localVars, cmdVars, collabVars>>

\* More than an hour passes with no timer pending.
LongIdle ==
    /\ server.timeouts = {}
    /\ server.records # <<>>
    /\ server.records # Aged(server.records, AgeCap)
    /\ server' = [server EXCEPT !.records = Aged(@, AgeCap)]
    /\ UNCHANGED <<localVars, cmdVars, collabVars>>

ServerNext ==
    \/ \E c \in Clients : ServerSyncRequest(c)
    \/ \E c \in Clients : ServerChange(c)
    \/ \E c \in Clients : ServerClose(c)
    \/ \E t \in server.timeouts : ServerTimeout(t)
    \/ ServerInterval
    \/ Tick
    \/ LongIdle

\* --------------------------------- one browser: the coordinator's undo, redo
\* Client 1 with its HistoryManager: tree, currentNode and selectedChildIndex
\* are its local history, client[1].store and client[1].active its store.

\* A slip the coordinator could make: delegating whenever collaboration is
\* enabled, connected or not.
delegatesWhenEnabled(c) == client[c].enabled

\* StateManager.undo / redo / canUndo / canRedo:
\* collaborationManager?.isEnabled() && collaborationManager?.isConnected()
delegates(c) == client[c].enabled /\ client[c].ws = "open"

\* StateManager.canUndo / canRedo
StateCanUndo(c) ==
    IF delegates(c) THEN client[c].enabled /\ undoTarget(client[c].doc) # None
    ELSE canUndo
StateCanRedo(c) ==
    IF delegates(c) THEN client[c].enabled /\ redoTarget(client[c].doc) # None
    ELSE canRedo

\* A user action of client 1 through HistoryManager.executeCommand: the new
\* node of the local tree, then the collaboration callback.
CoordCommand(cmd) ==
    /\ Len(tree) <= MaxNodes
    /\ onCommand(1, cmd, MaxSharedCommands)
    /\ tree' = executeCommand(tree, currentNode, cmd)
    /\ currentNode' = Len(tree) + 1
    /\ selectedChildIndex' = 0
    /\ lastOp' = "executeCommand"
    /\ UNCHANGED <<curves, activeCurveId, nextColorIndex, nextCurveId, branches, cmdVars,
                   serverVars>>

\* CollaborationManager.undo / redo as the coordinator calls it: false when
\* not enabled or not connected, else the shared move.
collabMove(c, op, target) ==
    IF client[c].enabled /\ client[c].ws = "open"
    THEN sharedMove(c, op, target)
    ELSE /\ client' = [client EXCEPT ![c] = [@ EXCEPT
                !.moves = @ + 1, !.shared = [op |-> op, ok |-> FALSE]]]
         /\ UNCHANGED c2h

\* StateManager.undo of client 1. Observers: moves counts the request on either
\* path, shared.op is "none" when the request went to the local tree.
CoordUndo ==
    /\ TotalMoves < MaxSharedMoves
    /\ IF delegates(1)
       THEN /\ collabMove(1, "undo", undoTarget(client[1].doc))
            /\ UNCHANGED <<currentNode, selectedChildIndex>>
       ELSE IF canUndo
       THEN /\ client' = [client EXCEPT ![1] = [@ EXCEPT
                    !.moves = @ + 1, !.shared = [op |-> "none", ok |-> FALSE],
                    !.store = undoCurves(tree, currentNode, @),
                    !.active = syncStateFromHistory(
                        GetAffectedCurveId(tree[tree[currentNode].parent].command),
                        undoCurves(tree, currentNode, client[1].store), @)]]
            /\ currentNode' = tree[currentNode].parent
            /\ selectedChildIndex' = 0
            /\ UNCHANGED c2h
       ELSE /\ client' = [client EXCEPT ![1] = [@ EXCEPT
                    !.moves = @ + 1, !.shared = [op |-> "none", ok |-> FALSE]]]
            /\ UNCHANGED <<c2h, currentNode, selectedChildIndex>>
    /\ lastOp' = "undo"
    /\ UNCHANGED <<curves, activeCurveId, nextColorIndex, nextCurveId, tree, branches,
                   cmdVars, hub, h2c, serverVars>>

\* StateManager.redo of client 1
CoordRedo ==
    LET nextNode == redoNode(tree, currentNode, selectedChildIndex)
    IN  /\ TotalMoves < MaxSharedMoves
        /\ IF delegates(1)
           THEN /\ collabMove(1, "redo", redoTarget(client[1].doc))
                /\ UNCHANGED <<currentNode, selectedChildIndex>>
           ELSE IF canRedo
           THEN /\ client' = [client EXCEPT ![1] = [@ EXCEPT
                        !.moves = @ + 1, !.shared = [op |-> "none", ok |-> FALSE],
                        !.store = Execute(tree[nextNode].command, @),
                        !.active = syncStateFromHistory(
                            GetAffectedCurveId(tree[nextNode].command),
                            Execute(tree[nextNode].command, client[1].store), @)]]
                /\ currentNode' = nextNode
                /\ selectedChildIndex' = 0
                /\ UNCHANGED c2h
           ELSE /\ client' = [client EXCEPT ![1] = [@ EXCEPT
                        !.moves = @ + 1, !.shared = [op |-> "none", ok |-> FALSE]]]
                /\ UNCHANGED <<c2h, currentNode, selectedChildIndex>>
        /\ lastOp' = "redo"
        /\ UNCHANGED <<curves, activeCurveId, nextColorIndex, nextCurveId, tree, branches,
                       cmdVars, hub, h2c, serverVars>>

\* One browser that edits, undoes and redoes while it joins the session,
\* loses the connection and reconnects.
CoordNext ==
    \/ \E cmd \in ClientCommands(1) : CoordCommand(cmd)
    \/ CoordUndo
    \/ CoordRedo
    \/ Enable(1)
    \/ Open(1)
    \/ HubSyncRequest(1)
    \/ HubChange(1)
    \/ ClientSyncResponse(1)
    \/ ConnectionLost(1)
    \/ ReconnectTimer(1)

\* A session whose connections hold.
CollabNext ==
    \/ \E c \in Clients : \E cmd \in ClientCommands(c) : LocalCommand(c, cmd, MaxCommands)
    \/ \E c \in Clients : Enable(c)
    \/ \E c \in Clients : Open(c)
    \/ \E c \in Clients : HubSyncRequest(c)
    \/ \E c \in Clients : HubChange(c)
    \/ \E c \in Clients : ClientSyncResponse(c)
    \/ \E c \in Clients : ClientChange(c)

\* A session whose connections hold and whose users also undo and redo.
SharedNext ==
    \/ \E c \in Clients : \E cmd \in ClientCommands(c) :
            LocalCommand(c, cmd, MaxSharedCommands)
    \/ \E c \in Clients : Enable(c)
    \/ \E c \in Clients : Open(c)
    \/ \E c \in Clients : HubSyncRequest(c)
    \/ \E c \in Clients : HubChange(c)
    \/ \E c \in Clients : ClientSyncResponse(c)
    \/ \E c \in Clients : ClientChange(c)
    \/ \E c \in Clients : SharedUndo(c)
    \/ \E c \in Clients : SharedRedo(c)

\* A session whose connections may be lost and made again.
ReconnectNext ==
    \/ \E c \in Clients : \E cmd \in ClientCommands(c) :
            LocalCommand(c, cmd, MaxReconnectCommands)
    \/ \E c \in Clients : Enable(c)
    \/ \E c \in Clients : Open(c)
    \/ \E c \in Clients : HubSyncRequest(c)
    \/ \E c \in Clients : HubChange(c)
    \/ \E c \in Clients : ClientSyncResponse(c)
    \/ \E c \in Clients : ClientChange(c)
    \/ \E c \in Clients : ConnectionLost(c)
    \/ \E c \in Clients : ReconnectTimer(c)
    \/ HubCleanup

vars == <<localVars, cmdVars, collabVars, serverVars>>

\* The application started alone: no command under test, nobody collaborating.
AppInit == LocalInit /\ CmdIdle /\ CollabIdle /\ ServerInit

\* A store and a command to try on it, nothing else running.
CommandInit == CmdInit /\ CollabIdle /\ ServerInit

\* Two applications just started and the hub with no session document.
SessionInit == LocalInit /\ CmdIdle /\ CollabInit /\ ServerInit

\* The local application: every operation of the store and the history tree.
Spec == AppInit /\ [][TreeNext]_vars

\* The local application restricted to executeCommand, undo, redo, switchToBranch.
SpecReplay == AppInit /\ [][ReplayNext]_vars

\* The local application without the clear button.
SpecJump == AppInit /\ [][JumpNext]_vars

\* One command of any kind executed and then undone on any store.
SpecCmd == CommandInit /\ [][CmdNext]_vars

\* One call of CurveManager.fromJSON on any store.
JsonCallInit == JsonInit /\ CollabIdle /\ ServerInit
SpecJson == JsonCallInit /\ [][FromJSONCall]_vars

\* Two clients and the hub in one session, connections holding.
SpecCollab == SessionInit /\ [][CollabNext]_vars

\* The same session when one message with undecodable bytes is sent in it.
MalformedNext ==
    \/ \E c \in Clients : \E cmd \in ClientCommands(c) :
            LocalCommand(c, cmd, MaxMalformedCommands)
    \/ \E c \in Clients : Enable(c)
    \/ \E c \in Clients : Open(c)
    \/ \E c \in Clients : HubSyncRequest(c)
    \/ \E c \in Clients : HubChange(c)
    \/ \E c \in Clients : ClientSyncResponse(c)
    \/ \E c \in Clients : ClientChange(c)
    \/ \E c \in Clients : SendMalformed(c)
SpecMalformed == SessionInit /\ [][MalformedNext]_vars

\* A session whose users also switch collaboration off.
DisableNext ==
    \/ \E c \in Clients : \E cmd \in ClientCommands(c) :
            LocalCommand(c, cmd, MaxReconnectCommands)
    \/ \E c \in Clients : Enable(c)
    \/ \E c \in Clients : Open(c)
    \/ \E c \in Clients : HubSyncRequest(c)
    \/ \E c \in Clients : HubChange(c)
    \/ \E c \in Clients : ClientSyncResponse(c)
    \/ \E c \in Clients : ClientChange(c)
    \/ \E c \in Clients : ConnectionLost(c)
    \/ \E c \in Clients : ReconnectTimer(c)
    \/ \E c \in Clients : Disable(c)
    \/ \E c \in Clients : oncloseAfterDisconnect(c)
SpecDisable == SessionInit /\ [][DisableNext]_vars

\* Two clients and the hub, with lost connections, reconnects and session cleanup.
SpecReconnect == SessionInit /\ [][ReconnectNext]_vars

\* ------------------------------------ remote overwrites and the local tree
\* The curves of the shared document a remote change may bring: none, or one
\* curve the local store never issued.
RemoteDocuments ==
    { <<>>, <<Curve("remote", colorPalette[2], <<[x |-> 10, y |-> 10]>>)>> }

\* A slip executeRemoteCommand could make: run the command as a local one,
\* through a new history node.
executeRemoteCommandAsLocal(t, cur, command) == executeCommand(t, cur, command)

\* HistoryManager.executeRemoteCommand(command): the tree after. It is
\* command.execute(this.state) and nothing else.
executeRemoteCommand(t, cur, command) == t

\* StateManager.applyRemoteChanges(curves) in the local application.
ApplyRemoteChanges(remote) ==
    LET command == RemoteStateUpdateCommand(remote)
    IN  /\ curves' = Execute(command, curves)
        /\ tree' = executeRemoteCommand(tree, currentNode, command)
        /\ activeCurveId' = RemoteActive(curves', activeCurveId)
        /\ UNCHANGED <<currentNode, selectedChildIndex, nextColorIndex, nextCurveId,
                       branches>>
        /\ Ran("executeRemoteCommand")

\* The local history while remote overwrites arrive.
RemoteNext ==
    \/ \E p \in Points : ClickAddPoint(p)
    \/ UndoClick
    \/ RedoClick
    \/ OpenHistoryDropdown
    \/ \E i \in 1..Len(branches) : BranchClick(i)
    \/ JumpForwardKey
    \/ JumpBackwardKey
    \/ ClearAllClick
    \/ \E remote \in RemoteDocuments : ApplyRemoteChanges(remote)

\* One client whose connections keep failing: the sockets close before or
\* after they open, or the constructor throws.
BackoffNext ==
    \/ Enable(1)
    \/ Open(1)
    \/ HubSyncRequest(1)
    \/ ClientSyncResponse(1)
    \/ onclose(1, MaxAttempts)
    \/ ReconnectTimer(1)
    \/ ReconnectTimerThrows(1)

\* Two clients and the hub, connections holding, with shared undo and redo.
SpecShared == SessionInit /\ [][SharedNext]_vars
SpecBranch == AppInit /\ [][BranchNext]_vars
SpecCoordinator == SessionInit /\ [][CoordNext]_vars
SpecServer == SessionInit /\ [][ServerNext]_vars
SpecRemote == AppInit /\ [][RemoteNext]_vars
SpecBackoff == SessionInit /\ [][BackoffNext]_vars

\* ------------------------------------------------- local history: properties

\* The nodes reachable from the root by following children links.
InTree(t) == {n \in 1..Len(t) : ReachableFrom(t, Root, n)}

\* C1: after any sequence of executeCommand, undo, redo and switchToBranch the
\* store's curves are what executing, in order from the root, the commands on
\* the path from the root to the current node gives on the initial store.
C1_StoreIsReplayOfPath ==
    curves = ExecutePath(tree, Tail(PathTo(tree, currentNode)), InitialCurves)

\* C1's case: a branch switch has just moved the current node from one child
\* of a branch point to a sibling, and the store differs from the initial one.
C1_SwitchedBranch ==
    /\ lastOp = "switchToBranch"
    /\ currentNode # Root
    /\ Len(tree[tree[currentNode].parent].children) > 1
    /\ curves # InitialCurves

\* C4: the current node is reachable from the root by following children
\* links, in every state any sequence of history operations, clear included,
\* can reach.
C4_CurrentReachableFromRoot == ReachableFrom(tree, Root, currentNode)

\* C5: executeCommand at a node that already has children appends the new node
\* as the last child, keeps the children it had in their order, and leaves
\* every other node, with its parent and children, as it was.
C5_ExecuteCommandAppendsChild ==
    [][(lastOp' = "executeCommand" /\ Len(tree[currentNode].children) > 0) =>
          /\ Len(tree') = Len(tree) + 1
          /\ tree'[currentNode].children =
                Append(tree[currentNode].children, Len(tree'))
          /\ tree'[currentNode].parent = tree[currentNode].parent
          /\ tree'[currentNode].command = tree[currentNode].command
          /\ \A n \in 1..Len(tree) : n # currentNode => tree'[n] = tree[n]
          /\ InTree(tree) \subseteq InTree(tree')]_vars

\* C5's case: a command has just been executed at a node that had a child, so
\* the new current node is a second child of its parent.
C5_ExecutedAtNodeWithChildren ==
    /\ lastOp = "executeCommand"
    /\ Len(tree[tree[currentNode].parent].children) > 1
    /\ tree[tree[currentNode].parent].children[
           Len(tree[tree[currentNode].parent].children)] = currentNode

\* C3: for every command kind but RemoteOverwrite and every store, also one
\* where the command's curve id or index is missing or out of range, execute
\* followed by undo leaves the curves and the active curve id as they were.
C3_UndoRestoresStore ==
    phase = "undone" => (curves = store0 /\ activeCurveId = active0)

\* ---------------------------------------------------- collaboration: properties
\* The replicated documents of the clients and, when it has one, of the hub.
ReplicaDocs ==
    {client[c].doc : c \in Clients} \cup {hub.doc[i] : i \in 1..Len(hub.doc)}

ChangeCount(q) == Cardinality({i \in 1..Len(q) : q[i].type = "change"})

\* Client c has a connection opening or open and has not loaded the
\* sync-response's document yet.
BeforeLoad(c) == client[c].ws \in {"connecting", "open"} /\ ~client[c].synced

\* C6: a change a client made while its lost connection was down is in the
\* client's replicated document once the client has reconnected and loaded
\* the sync-response.
C6_OfflineChangeKept ==
    \A c \in Clients : client[c].synced => client[c].offline \subseteq client[c].doc.applied

\* C7: from the opening of a connection until the sync-response's document is
\* loaded, the client's replicated document does not change and the client
\* sends no change message.
C7_NoTransactionBeforeLoad ==
    [][\A c \in Clients :
          (BeforeLoad(c) /\ BeforeLoad(c)') =>
              /\ client'[c].doc = client[c].doc
              /\ ChangeCount(c2h'[c]) <= ChangeCount(c2h[c])]_vars

\* C8: the hub answers every sync-request it handles with a sync-response
\* that carries its current document and isFirstUser exactly when the request
\* created the document; of the answers given for one document exactly one,
\* the first, has isFirstUser.
C8_OneFirstUserPerDocument ==
    /\ [](hub.doc # None => (hub.firstAnswers = 1 /\ hub.answers >= 1))
    /\ [][\A c \in Clients :
            (/\ c2h[c] # <<>>
             /\ Head(c2h[c]).type = "sync-request"
             /\ c2h'[c] = Tail(c2h[c])
             /\ client' = client) =>
                /\ hub'.doc # None
                /\ h2c'[c] = Append(h2c[c], SyncResponse(hub'.doc[1], hub.doc = None))
                /\ (hub.doc # None => hub'.firstAnswers = hub.firstAnswers)]_vars

\* C8's case: the hub is on its second document and has answered two
\* sync-requests for it.
C8_SecondDocumentJoinedTwice ==
    /\ hub.doc # None
    /\ hub.gen = 2
    /\ hub.answers = 2

\* C9: when the hub's document holds the first joiner's upload and nothing
\* else, a peer that loads it from its sync-response ends with the uploaded
\* curves as its store, whatever the store held.
C9_JoinerTakesUploadedCurves ==
    [][\A b \in Clients :
          (/\ h2c[b] # <<>>
           /\ Head(h2c[b]).type = "sync-response"
           /\ ~Head(h2c[b]).isFirstUser
           /\ Head(h2c[b]).documentState.uploaded # None
           /\ Cardinality(Head(h2c[b]).documentState.applied) = 2
           /\ h2c'[b] = Tail(h2c[b])) =>
              client'[b].store = Head(h2c[b]).documentState.uploaded[1]]_vars

\* C9's case: a peer that had run a command of its own before joining has
\* loaded the first joiner's upload, a curve with a point, as its store.
C9_JoinedAfterUpload ==
    \E b \in Clients :
        /\ client[b].synced
        /\ client[b].commands > 0
        /\ client[b].doc.uploaded # None
        /\ Cardinality(client[b].doc.applied) = 2
        /\ client[b].store = client[b].doc.uploaded[1]
        /\ \E i \in 1..Len(client[b].store) : client[b].store[i].points # <<>>

\* How often point p occurs in a sequence of points.
CountPoint(pts, p) == Cardinality({i \in 1..Len(pts) : pts[i] = p})

\* C10: when the two clients, from the same document, each add one point to
\* the same curve and each has applied the other's change, their documents'
\* curves are equal and the curve holds the points it had plus the two added
\* points, each once.
C10_ConcurrentAddsKeepEveryPoint ==
    \A ca \in client[1].made, cb \in client[2].made :
        (/\ ca.cmd.kind = "AddPoint"
         /\ cb.cmd.kind = "AddPoint"
         /\ ca.cmd.curveId = cb.cmd.curveId
         /\ ca.deps = cb.deps
         /\ HasCurve(ca.base, ca.cmd.curveId)
         /\ client[1].doc.applied = ca.deps \cup {ca.id, cb.id}
         /\ client[2].doc.applied = ca.deps \cup {ca.id, cb.id}) =>
            LET d1 == PlainCurves(client[1].doc.curves)
                d2 == PlainCurves(client[2].doc.curves)
                before == ca.base[FindIndex(ca.base, ca.cmd.curveId) + 1].points
            IN  /\ d1 = d2
                /\ HasCurve(d1, ca.cmd.curveId)
                /\ \A p \in Points \cup {ca.cmd.point, cb.cmd.point} :
                      CountPoint(d1[FindIndex(d1, ca.cmd.curveId) + 1].points, p)
                        = CountPoint(before, p)
                          + (IF ca.cmd.point = p THEN 1 ELSE 0)
                          + (IF cb.cmd.point = p THEN 1 ELSE 0)

\* Client c takes a step that runs one local command while collaboration is
\* enabled and the hub's document is loaded.
SyncedCommandStep(c) ==
    /\ client[c].enabled
    /\ client[c].synced
    /\ client'[c].commands = client[c].commands + 1

\* C11: after a local command in an enabled replica that has loaded the hub's
\* document, the document's curves equal the store's curves, and when the
\* socket is open exactly one change message has been sent for the command.
C11_DocumentFollowsStore ==
    [][\A c \in Clients :
          SyncedCommandStep(c) =>
              /\ PlainCurves(client'[c].doc.curves) = client'[c].store
              /\ client[c].ws = "open" =>
                    /\ Len(c2h'[c]) = Len(c2h[c]) + 1
                    /\ c2h'[c][Len(c2h'[c])].type = "change"]_vars

\* Between documents d and e one node was added to the shared history under
\* d's current node, and it is e's current node.
AddsHistoryNode(d, e) ==
    /\ d.history # None
    /\ e.history # None
    /\ LET h == d.history[1]
           g == e.history[1]
       IN  /\ Len(g.nodes) = Len(h.nodes) + 1
           /\ LET new == g.nodes[Len(g.nodes)]
              IN  /\ \A i \in 1..Len(h.nodes) : h.nodes[i].id # new.id
                  /\ new.parentId = h.currentNodeId
                  /\ g.currentNodeId = new.id
                  /\ HistoryNodeAt(g, h.currentNodeId).childIds =
                        Append(HistoryNodeAt(h, h.currentNodeId).childIds, new.id)

\* C12: every local command of an enabled replica that has completed the sync
\* handshake adds one node to the document's shared history: its parentId is
\* the previous currentNodeId, the parent's childIds gain its id, and
\* currentNodeId becomes its id.
C12_CommandAddsHistoryNode ==
    [][\A c \in Clients :
          SyncedCommandStep(c) => AddsHistoryNode(client[c].doc, client'[c].doc)]_vars

\* Nothing is in flight and the two clients, both joined, hold the same changes.
Converged ==
    /\ \A c \in Clients :
          /\ client[c].synced
          /\ client[c].ws = "open"
          /\ c2h[c] = <<>>
          /\ h2c[c] = <<>>
    /\ client[1].doc.applied = client[2].doc.applied

\* The changes the session's document holds that local commands made were
\* all made by client a, and there is one.
BuiltBy(a) ==
    /\ \E ch \in client[a].made :
          /\ ch.cmd.kind \notin {"InitialSync", "SharedMove"}
          /\ ch.id \in client[a].doc.applied
    /\ \A b \in Clients \ {a} : \A ch \in client[b].made :
          ch.cmd.kind \in {"InitialSync", "SharedMove"} \/ ch.id \notin client[b].doc.applied

\* Client c takes a step that is a shared undo.
SharedUndoStep(c) ==
    /\ client'[c].moves = client[c].moves + 1
    /\ client'[c].shared.op = "undo"

\* C13: when the peers of a connected session have converged on curves built
\* by one peer's local commands, a shared undo by any peer succeeds: it moves
\* currentNodeId to the parent node, replaces the curves by the reconstruction
\* for the parent and sends the change; and peers that hold the same changes
\* with nothing in flight have the same currentNodeId and curves.
C13_SharedUndoSucceeds ==
    /\ [][\A c \in Clients :
            (Converged /\ (\E a \in Clients : BuiltBy(a)) /\ SharedUndoStep(c)) =>
                /\ client'[c].shared.ok
                /\ undoTarget(client[c].doc) # None
                /\ client'[c].doc.history # None
                /\ client'[c].doc.history[1].currentNodeId = undoTarget(client[c].doc)[1]
                /\ PlainCurves(client'[c].doc.curves) =
                      reconstructState(client[c].doc.history[1],
                                       undoTarget(client[c].doc)[1], <<>>).value
                /\ client'[c].store = PlainCurves(client'[c].doc.curves)
                /\ ChangeCount(c2h'[c]) = ChangeCount(c2h[c]) + 1]_vars
    /\ [](Converged =>
            /\ client[1].doc.history = client[2].doc.history
            /\ PlainCurves(client[1].doc.curves) = PlainCurves(client[2].doc.curves))

\* C14: in every replica whose document has a shared history, the document's
\* curves are what reconstructState gives for the current node from the empty
\* curves: the replay of the commands on the path from the root.
C14_CurvesAreHistoryReplay ==
    \A d \in ReplicaDocs :
        d.history # None =>
            LET replay == reconstructState(d.history[1], d.history[1].currentNodeId, <<>>)
            IN  /\ replay.ok
                /\ PlainCurves(d.curves) = replay.value

\* C15: for a command of any of the six kinds and any curves, the command
\* rebuilt from the command's serialized form, executed on the curves, gives
\* the curves the command itself gives.
C15_RebuiltCommandExecutesAlike ==
    phase \in {"unserialized", "threw", "rebuilt"} =>
        /\ phase = "rebuilt"
        /\ curves = Execute(theCommand, store0)

\* C16: after any sequence of user actions the store holds at least one
\* curve; in particular deleting the last curve leaves a curve in the store.
C16_StoreNeverEmpty == Len(curves) >= 1

\* C17: the store's active curve id, when set, is the id of a curve that is
\* currently in the store.
C17_ActiveCurveInStore ==
    activeCurveId # Null => \E i \in 1..Len(curves) : curves[i].id = activeCurveId

\* The parent link of node n names a node of the tree.
HasParent(n) == \E p \in 1..Len(tree) : tree[n].parent = p

\* The nodes listed as children of node n.
ChildNodes(n) == {tree[n].children[i] : i \in 1..Len(tree[n].children)}

\* C18: canUndo is true exactly when the current node has a parent, canRedo
\* exactly when it has at least one child, and isAtIntersection exactly when
\* it has more than one child.
C18_PredicatesMatchTreeShape ==
    /\ canUndo <=> HasParent(currentNode)
    /\ canRedo <=> ChildNodes(currentNode) # {}
    /\ isAtIntersection <=> Cardinality(ChildNodes(currentNode)) > 1

\* An undo has landed on a node with two children.
C18_UndoneToIntersection ==
    /\ lastOp = "undo"
    /\ isAtIntersection
    /\ canRedo

\* The largest number of parent links between a node of t and the root.
TreeHeight(t) ==
    CHOOSE h \in 0..Len(t) :
        /\ \A n \in 1..Len(t) : Len(PathTo(t, n)) - 1 <= h
        /\ \E n \in 1..Len(t) : Len(PathTo(t, n)) - 1 = h

\* C19: jumpToNextIntersectionOrEnd moves the current node down the tree by at
\* most tree-height steps and leaves it at a node with no child or with two or
\* more children; its first step goes to the selected child (clamped to the
\* last child), every later step to the first child.
C19_JumpForwardStopsAtBranchOrEnd ==
    [][lastOp' = "jumpToNextIntersectionOrEnd" =>
          LET hops == PathToTarget(tree, currentNode, currentNode')
              n == Len(tree[currentNode].children)
              childIndex == IF selectedChildIndex < n - 1 THEN selectedChildIndex
                            ELSE n - 1
          IN  /\ currentNode \in Ancestors(tree, currentNode')
              /\ Len(hops) >= 1
              /\ Len(hops) <= TreeHeight(tree)
              /\ Len(tree[currentNode'].children) # 1
              /\ hops[1] = tree[currentNode].children[childIndex + 1]
              /\ \A i \in 2..Len(hops) : hops[i] = tree[hops[i - 1]].children[1]
              /\ tree' = tree]_vars

\* C19's case: a jump forward has stopped at a branch point below the root.
C19_JumpedToIntersection ==
    /\ lastOp = "jumpToNextIntersectionOrEnd"
    /\ Len(tree[currentNode].children) >= 2
    /\ tree[currentNode].parent # 0

\* The current node and the curves after StateManager.undo immediately
\* followed by StateManager.redo, from the present state.
UndoThenRedo ==
    LET undone == undoCurves(tree, currentNode, curves)
        parent == tree[currentNode].parent
    IN  IF Len(tree[parent].children) = 0
        THEN [currentNode |-> parent, curves |-> undone]
        ELSE LET node == redoNode(tree, parent, 0)
             IN  [currentNode |-> node,
                  curves |-> Execute(tree[node].command, undone)]

\* C20: from any node other than the root, undo immediately followed by redo
\* returns to the same current node and to the curves held before the undo,
\* also when the node undone is not the first child of its parent.
C20_UndoThenRedoReturns ==
    canUndo => UndoThenRedo = [currentNode |-> currentNode, curves |-> curves]

\* The node at the end of the branch that starts at n: first children down to
\* a node without children.
RECURSIVE EndOfBranch(_, _)
EndOfBranch(t, n) ==
    IF Len(t[n].children) = 0 THEN n ELSE EndOfBranch(t, t[n].children[1])

\* C21: switchToBranch on an alternative that getBranches lists and does not
\* mark isCurrent leaves the store in the state at the end of that
\* alternative's branch: after three added points, two undos and a fourth
\* point, the curve holds the three points added first.
C21_SwitchRestoresEndOfBranch ==
    [][(/\ lastOp' = "switchToBranch"
        /\ \E i \in 1..Len(branches) : branches[i] = currentNode'
        /\ ~isInCurrentPath(tree, currentNode, currentNode')) =>
          curves' = ExecutePath(tree,
                                Tail(PathTo(tree, EndOfBranch(tree, currentNode'))),
                                InitialCurves)]_vars

\* The curves and the active curve id after FileManager.loadJSONFromFile with
\* file f immediately followed by StateManager.undo, from the present state.
LoadThenUndo(f) ==
    LET command == LoadCurvesCommand(f, curves)
        loaded == Execute(command, curves)
        loadedActive == IF Len(f) > 0 THEN f[1].id ELSE activeCurveId
        undone == Undo(command, loaded)
    IN  [curves |-> undone,
         activeCurveId |->
             syncStateFromHistory(GetAffectedCurveId(tree[currentNode].command),
                                  undone, loadedActive)]

\* C22: loading a file runs one LoadCurves command that replaces the whole
\* curve sequence and makes the first loaded curve active, and a following
\* undo restores the previous curve sequence and the previously active curve id.
C22_UndoOfLoadRestoresStoreAndActive ==
    /\ [][\A f \in Files :
            (lastOp' = "executeCommand" /\ tree'[currentNode'].command.kind = "LoadCurves"
                /\ tree'[currentNode'].command.newCurves = f) =>
              (curves' = f /\ activeCurveId' = f[1].id /\ Len(tree') = Len(tree) + 1)]_vars
    /\ [](\A f \in Files :
            LoadThenUndo(f) = [curves |-> curves, activeCurveId |-> activeCurveId])

\* A StateManager.undo or redo request of client 1 has just run.
CoordStep(op) == client'[1].moves = client[1].moves + 1 /\ lastOp' = op

\* The request went to the shared history and left the local tree alone.
WentShared(op) ==
    /\ client'[1].shared.op = op
    /\ tree' = tree
    /\ currentNode' = currentNode
    /\ selectedChildIndex' = selectedChildIndex
    /\ client'[1].store \in {client[1].store, PlainCurves(client'[1].doc.curves)}

\* The request went to the local tree (the node to move to is `to`, 0 for
\* none) and left the shared document alone.
WentLocal(to, store) ==
    /\ client'[1].shared.op = "none"
    /\ client'[1].doc = client[1].doc
    /\ c2h' = c2h
    /\ tree' = tree
    /\ IF to # 0 THEN currentNode' = to /\ client'[1].store = store
       ELSE currentNode' = currentNode /\ client'[1].store = client[1].store

C24_OnlyEmptyIdleSessionRemoved ==
    /\ [][(server.sessions # None /\ server'.sessions = None) =>
            /\ server.records[server.sessions[1]].clients = {}
            /\ server.records[server.sessions[1]].age >= IdleLimit]_vars
    /\ [](\A c, d \in Clients :
            (server.currentSession[c] # 0 /\ server.currentSession[d] # 0) =>
                server.currentSession[c] = server.currentSession[d])

\* ------------------------------------------------ reconnecting: properties

RECURSIVE backoff(_)
\* The delay of the n-th reconnect in a row: 1 s, 2 s, 4 s, 8 s, 16 s, then 30 s.
backoff(n) ==
    IF n <= 1 THEN firstReconnectTimeout
    ELSE IF backoff(n - 1) * 2 < maxReconnectTimeout THEN backoff(n - 1) * 2
    ELSE maxReconnectTimeout

\* C25: the reconnects scheduled in a row since a connection last opened
\* wait 1 s, 2 s, 4 s, 8 s, 16 s and from then on 30 s, never more, and an
\* open connection has put the delay back to 1 s.
C25_ReconnectDelaysDoubleToCap ==
    \A c \in Clients :
        /\ client[c].timer =>
              /\ client[c].delay = backoff(client[c].attempts)
              /\ client[c].delay <= maxReconnectTimeout
        /\ client[c].ws = "open" => client[c].reconnectTimeout = firstReconnectTimeout

\* --------------------------------------------- remote overwrites: properties

\* C26: a remote overwrite applied with executeRemoteCommand leaves the tree,
\* the current node and the selection as they were, and no node of the tree
\* ever holds a RemoteOverwrite command, so no undo, switchToBranch, jump or
\* clear (each undoes commands of tree nodes only) reaches its undo.
C26_RemoteOverwriteStaysOutOfTree ==
    /\ [][lastOp' = "executeRemoteCommand" =>
              /\ tree' = tree
              /\ currentNode' = currentNode
              /\ selectedChildIndex' = selectedChildIndex]_vars
    /\ [](\A n \in 1..Len(tree) : tree[n].command.kind # "RemoteOverwrite")

\* A remote overwrite has replaced the store while the history stands below
\* the root with more than one node.
C26_OverwrittenWithHistory ==
    /\ lastOp = "executeRemoteCommand"
    /\ currentNode # Root
    /\ Len(tree) >= 3
    /\ curves \in RemoteDocuments

\* ------------------------------------------------------- redo: properties

\* C27: at a node with n >= 1 children and selection k, redo makes
\* children[min(k, n - 1)] the current node, executes that node's command and
\* no other on the store and sets the selection to 0; at a node without
\* children redo returns null and changes nothing.
C27_RedoTakesSelectedChild ==
    /\ [][lastOp' = "redo" =>
              LET n == Len(tree[currentNode].children)
                  k == selectedChildIndex
                  child == tree[currentNode].children[IF k < n - 1 THEN k + 1 ELSE n]
              IN  /\ n >= 1
                  /\ currentNode' = child
                  /\ curves' = Execute(tree[child].command, curves)
                  /\ selectedChildIndex' = 0
                  /\ tree' = tree]_vars
    /\ [](~canRedo =>
              redo(tree, currentNode, selectedChildIndex, curves) =
                  [currentNode |-> currentNode, selectedChildIndex |-> selectedChildIndex,
                   curves |-> curves, ret |-> Null])

\* A redo has just taken a child other than the first.
C27_RedoneToSelectedBranch ==
    /\ lastOp = "redo"
    /\ Len(tree[tree[currentNode].parent].children) >= 2
    /\ tree[tree[currentNode].parent].children[1] # currentNode

\* --------------------------------------------- branch selection: properties

\* C28: at a node with n > 1 children switchToNextBranch takes the selection
\* i to (i + 1) mod n and switchToPreviousBranch to (i - 1) mod n, and neither
\* changes the current node, the tree or the curves; at a node with at most
\* one child both leave the selection as it is.
C28_BranchKeysCycleSelection ==
    /\ [][lastOp' = "switchToNextBranch" =>
              LET n == Len(tree[currentNode].children)
              IN  /\ n > 1
                  /\ selectedChildIndex' = (selectedChildIndex + 1) % n
                  /\ UNCHANGED <<currentNode, tree, curves>>]_vars
    /\ [][lastOp' = "switchToPreviousBranch" =>
              LET n == Len(tree[currentNode].children)
              IN  /\ n > 1
                  /\ selectedChildIndex' = (selectedChildIndex - 1) % n
                  /\ UNCHANGED <<currentNode, tree, curves>>]_vars
    /\ [](Len(tree[currentNode].children) <= 1 =>
              /\ switchToNextBranch(tree, currentNode, selectedChildIndex)
                    = selectedChildIndex
              /\ switchToPreviousBranch(tree, currentNode, selectedChildIndex)
                    = selectedChildIndex)

\* switchToPreviousBranch has wrapped from the first of three branches to the
\* last.
C28_WrappedToLastBranch ==
    /\ lastOp = "switchToPreviousBranch"
    /\ Len(tree[currentNode].children) = 3
    /\ selectedChildIndex = 2

\* C29: the selection is always a valid child index of the current node, 0
\* when that node has fewer than two children; getIntersectionInfo returns
\* null exactly when the current node has fewer than two children, and
\* otherwise 1 <= currentBranch <= totalBranches = the number of children.
C29_SelectionIsValidChildIndex ==
    LET n == Len(tree[currentNode].children)
        info == getIntersectionInfo(tree, currentNode, selectedChildIndex)
    IN  /\ selectedChildIndex >= 0
        /\ n < 2 => selectedChildIndex = 0
        /\ n >= 2 => selectedChildIndex <= n - 1
        /\ info.isNull <=> n < 2
        /\ ~info.isNull =>
              /\ 1 <= info.currentBranch
              /\ info.currentBranch <= info.totalBranches
              /\ info.totalBranches = n

\* The last of three branches is selected by cycling forward.
C29_LastOfThreeSelected ==
    /\ lastOp = "switchToNextBranch"
    /\ getIntersectionInfo(tree, currentNode, selectedChildIndex) =
          [isNull |-> FALSE, currentBranch |-> 3, totalBranches |-> 3]

\* ------------------------------------------------ jump backward: properties

\* The nearest strict ancestor of n that has two or more children, the root
\* when there is none (n is not the root).
RECURSIVE NearestBranchPointAbove(_, _)
NearestBranchPointAbove(t, n) ==
    LET p == t[n].parent
    IN  IF p = Root \/ Len(t[p].children) >= 2 THEN p
        ELSE NearestBranchPointAbove(t, p)

\* C30: jumpToPreviousIntersectionOrStart from a node other than the root
\* undoes the commands on the way and leaves the current node at the nearest
\* strict ancestor with two or more children, or at the root when there is
\* none; at the root it changes nothing.
C30_JumpBackwardStopsAtBranchOrStart ==
    [][lastOp' = "jumpToPreviousIntersectionOrStart" =>
          IF canUndo
          THEN LET target == NearestBranchPointAbove(tree, currentNode)
               IN  /\ currentNode' = target
                   /\ curves' = UndoWalk(tree, currentNode, target, curves)
                   /\ tree' = tree
          ELSE UNCHANGED <<curves, activeCurveId, tree, currentNode,
                           selectedChildIndex>>]_vars

\* ----------------------------------------------- branch listing: properties

\* C31: getBranches lists, root-most junction first and children in their own
\* order, the children of every node on the root-to-current path that has two
\* or more children, and nothing else; a listed child is marked isCurrent
\* exactly when it lies on that path, so each junction strictly above the
\* current node has exactly one child marked isCurrent.
C31_BranchesListJunctionChildren ==
    LET path == PathTo(tree, currentNode)
        b == getBranches(tree, currentNode)
        onPath(n) == \E k \in 1..Len(path) : path[k] = n
        junctions == {n \in 1..Len(tree) : onPath(n) /\ Len(tree[n].children) >= 2}
        depth(n) == CHOOSE k \in 1..Len(path) : path[k] = tree[n].parent
        pos(n) == CHOOSE i \in 1..Len(tree[tree[n].parent].children) :
                      tree[tree[n].parent].children[i] = n
        isCurrent(n) == isInCurrentPath(tree, currentNode, n)
    IN  /\ {b[i] : i \in 1..Len(b)} =
              UNION {{tree[j].children[i] : i \in 1..Len(tree[j].children)} :
                         j \in junctions}
        /\ \A i, j \in 1..Len(b) :
              i < j => \/ depth(b[i]) < depth(b[j])
                       \/ depth(b[i]) = depth(b[j]) /\ pos(b[i]) < pos(b[j])
        /\ \A i \in 1..Len(b) : isCurrent(b[i]) <=> onPath(b[i])
        /\ \A j \in junctions \ {currentNode} :
              Cardinality({i \in 1..Len(b) :
                              tree[b[i]].parent = j /\ isCurrent(b[i])}) = 1

\* The dropdown lists the branches of two junctions, both strictly above the
\* current node.
C31_TwoJunctionsListed ==
    /\ lastOp = "getBranches"
    /\ branches = getBranches(tree, currentNode)
    /\ Len(branches) = 4
    /\ tree[branches[1]].parent # tree[branches[4]].parent
    /\ Len(tree[currentNode].children) = 0

\* ---------------------------------------------------- clear all: properties

\* C32: after the Clear All action, whatever commands the history held, the
\* store holds exactly one curve, without points, the current node is the root
\* and the root has no children.
C32_ClearAllLeavesOneEmptyCurve ==
    [][lastOp' = "clear" =>
          /\ Len(curves') = 1
          /\ curves'[1].points = <<>>
          /\ currentNode' = Root
          /\ tree'[Root].children = <<>>]_vars

\* ------------------------------------------- applying remote changes: properties

C34_OwnChangeNeverApplied ==
    /\ [][\A c \in Clients :
              (/\ c2h[c] # <<>>
               /\ Head(c2h[c]).type = "change"
               /\ c2h'[c] = Tail(c2h[c])
               /\ client' = client) => h2c'[c] = h2c[c]]_vars
    /\ [](\A c \in Clients : \A ch \in client[c].made :
              handleChange(c, client[c].doc, ChangeMessage(c, ch)) = client[c].doc)

\* The hub has forwarded a client's change to the other client, while that
\* client's own document, loaded again since, no longer holds the change.
C34_ForwardedToOtherOnly ==
    \E c \in Clients :
        /\ \E i \in 1..Len(h2c[3 - c]) :
              h2c[3 - c][i].type = "change" /\ h2c[3 - c][i].senderId = c
        /\ \E ch \in client[c].made : ch.id \notin client[c].doc.applied

\* ------------------------------------------------ the hub's fan-out: properties

\* C35: a change the hub receives from a connection that has joined is
\* applied to the document of the session (the table's record for 'default')
\* and forwarded to every other connection that has joined the session; a
\* change from a connection that has not sent sync-request does nothing.
C35_ChangeReachesWholeSession ==
    [][server'.lastChange # server.lastChange =>
          LET ch == server'.lastChange[1]
          IN  /\ server.currentSession[ch.from] # 0
              /\ server.sessions = Some(ch.record)
              /\ ch.to = {d \in Clients \ {ch.from} : server.currentSession[d] # 0}]_vars

\* --------------------------------------------------- fromJSON: properties

\* validateCurvesData(data.curves): an array whose elements each have a string
\* id and a string color (the points of JsonElements are all valid).
validateCurvesData(data) ==
    /\ data.hasCurves
    /\ data.isArray
    /\ \A i \in 1..Len(data.items) : data.items[i].id # Null /\ data.items[i].color # Null

\* C36: CurveManager.fromJSON given data that fails structural validation (no
\* curves field, curves not an array, or an element lacking a string id or a
\* color) leaves the store's curves and the active curve id unchanged.
C36_InvalidJsonLeavesStoreUnchanged ==
    (phase = "loaded" /\ ~validateCurvesData(theCommand.data)) =>
        (curves = store0 /\ activeCurveId = active0)

\* ------------------------------------------- malformed blobs: properties

\* C37: when a client or the hub receives a change blob that the CRDT cannot
\* apply, its document stays unchanged, the client fires none of
\* onRemoteChange, onHistoryChange and onPresenceUpdate (so its store stays
\* too), the connection stays open, and valid changes that come later are
\* still applied.
C37_MalformedBlobIsDiscarded ==
    /\ [][\A c \in Clients :
            (/\ h2c[c] # <<>>
             /\ h2c'[c] = Tail(h2c[c])
             /\ Head(h2c[c]).type = "change"
             /\ ~sentBySelf(c, Head(h2c[c])))
            => LET ch == Head(h2c[c]).changes
               IN  IF applyChangesThrows(ch)
                   THEN /\ client'[c].doc = client[c].doc
                        /\ client'[c].store = client[c].store
                        /\ client'[c].active = client[c].active
                        /\ automergeApplyRemoteChanges(client[c].doc, ch).fired = {}
                        /\ client'[c].ws = "open"
                        /\ client'[c].enabled
                   ELSE client[c].discarded # None
                            => client'[c].doc = applyChanges(client[c].doc, ch)]_vars
    /\ [][\A c \in Clients :
            (/\ c2h[c] # <<>>
             /\ c2h'[c] = Tail(c2h[c])
             /\ Head(c2h[c]).type = "change")
            => LET ch == Head(c2h[c]).changes
               IN  IF applyChangesThrows(ch)
                   THEN /\ hub'.doc = hub.doc
                        /\ hub'.clients = hub.clients
                        /\ client' = client
                   ELSE hub.discarded # None
                            => hub'.doc = Some(applyChanges(hub.doc[1], ch))]_vars

\* A client and the hub have each discarded a malformed blob, and each has
\* since applied a change of another replica.
C37_ValidChangeAfterDiscard ==
    \E c \in Clients :
        /\ client[c].discarded # None
        /\ client[c].ws = "open"
        /\ hub.discarded # None
        /\ \E d \in Clients \ {c} : \E ch \in client[d].made :
                /\ ch.id \in client[c].doc.applied \ client[c].discarded[1]
                /\ ch.id \in hub.doc[1].applied \ hub.discarded[1]

\* ------------------------------------------- replay across jumps: properties

\* C38: the path-replay invariant also holds across jumps: after any sequence
\* that also contains jumpToNextIntersectionOrEnd,
\* jumpToPreviousIntersectionOrStart and branch-selection changes, the store's
\* curves equal the replay of the commands on the path from the root to the
\* current node, and a jump executes (forward) or undoes (backward) each
\* command on the path it walks exactly once.
C38_ReplayHoldsAcrossJumps ==
    /\ [](curves = ExecutePath(tree, Tail(PathTo(tree, currentNode)), InitialCurves))
    /\ [][lastOp' = "jumpToNextIntersectionOrEnd" =>
            /\ currentNode \in Ancestors(tree, currentNode')
            /\ curves' = ExecutePath(tree, PathToTarget(tree, currentNode, currentNode'),
                                     curves)]_vars
    /\ [][lastOp' = "jumpToPreviousIntersectionOrStart" =>
            /\ currentNode' \in Ancestors(tree, currentNode)
            /\ curves' = UndoWalk(tree, currentNode, currentNode', curves)]_vars

\* A jump forward has just followed the second branch, selected with the
\* branch keys, of a branch point reached by a jump backward or an undo.
C38_JumpedIntoSelectedBranch ==
    /\ lastOp = "jumpToNextIntersectionOrEnd"
    /\ currentNode # Root
    /\ Len(tree[tree[currentNode].parent].children) > 1
    /\ tree[tree[currentNode].parent].children[2] = currentNode
    /\ curves # InitialCurves

\* ------------------------------------------------- disabling: properties

\* C39: after collaboration is disabled, and as long as it is not enabled
\* again, the client schedules no reconnect, opens no new connection and
\* applies no hub document or remote change to the local store.
C39_DisabledClientStaysOffline ==
    [][\A c \in Clients :
          (~client[c].enabled /\ ~client'[c].enabled) =>
              /\ client'[c].timer => client[c].timer
              /\ client'[c].ws \in {"connecting", "open"} =>
                    client[c].ws \in {"connecting", "open"}
              /\ h2c[c] # <<>> => h2c'[c] # Tail(h2c[c])]_vars

\* ------------------------------------------ shared history tree: properties

\* A shared history that is a well-formed tree: currentNodeId and rootId name
\* existing nodes, every node but the root has a parent that exists and lists
\* it among its childIds exactly once, and the root alone has no parent.
WellFormedHistory(h) ==
    LET ids == {h.nodes[i].id : i \in 1..Len(h.nodes)}
    IN  /\ h.currentNodeId \in ids
        /\ h.rootId \in ids
        /\ \A i \in 1..Len(h.nodes) :
              LET n == h.nodes[i]
              IN  IF n.id = h.rootId
                  THEN n.parentId = HEAD
                  ELSE /\ n.parentId \in ids
                       /\ LET p == HistoryNodeAt(h, n.parentId)
                          IN  Cardinality({k \in 1..Len(p.childIds) :
                                              p.childIds[k] = n.id}) = 1

\* C40: in every replica, after any interleaving of local commands, shared
\* undo and redo and merges of remote changes, the shared history is a
\* well-formed tree.
C40_SharedHistoryIsWellFormedTree ==
    \A d \in ReplicaDocs : d.history # None /\ WellFormedHistory(d.history[1])

====
